---- MODULE Spec2Model ----
(***************************************************************************)
(* Verification model of the vedha-pocket worker: the URL safety validator *)
(* (shared/utils validateUrlForSsrf), the chunker (shared/utils chunkText) *)
(* the ingestion pipeline (processIngestUrl, processIngestFile and the     *)
(* ingest worker's handler), the retrieval-control functions (routeQuery,  *)
(* rewriteQueryWithContext, getAdaptiveRetrievalParams,                    *)
(* gradeChunksRelevance, gradeAnswer, runAgenticPipeline), the retry       *)
(* combinator retryWithBackoff and the embedding provider's embed.         *)
(*                                                                         *)
(* Strings whose characters the code inspects (host names, chunked text)   *)
(* are sequences of one-character strings.                                 *)
(***************************************************************************)
EXTENDS Integers, Sequences, FiniteSets, TLC

VARIABLES
    status,         \* sources.status, per Source
    error_message,  \* sources.error_message, per Source
    chunks,         \* the rows of table chunks
    audit_events,   \* the rows of table audit_events, in insertion order
    job,            \* per worker slot: the running ingest job and its locals
    history,        \* per Source: what the finished jobs did (bookkeeping)
    ssrfUrl,        \* argument of a validateUrlForSsrf call
    ssrfResult,     \* its outcome
    ctArgs,         \* arguments of a chunkText call
    ctChunks,       \* its result
    router,         \* a routeQuery call: arguments, position, requests, result
    retrieval,      \* a getAdaptiveRetrievalParams call: arguments and result
    crag,           \* a gradeChunksRelevance call
    answerGrade,    \* a gradeAnswer call
    backoff,        \* a retryWithBackoff call: attempts, delays, outcome
    rewriter,       \* a rewriteQueryWithContext call
    pipeline,       \* a runAgenticPipeline generator: position, events, result
    embedder,       \* an OpenRouterEmbeddingProvider.embed call
    memory_chunks,  \* the rows of table memory_chunks
    memoryJob       \* the memory worker's running job and its locals

ingestVars == <<status, error_message, chunks, audit_events, job, history>>

ssrfVars == <<ssrfUrl, ssrfResult>>

chunkVars == <<ctArgs, ctChunks>>

memoryVars == <<memory_chunks, memoryJob>>

extraVars == <<rewriter, pipeline, embedder, memoryVars>>

utilVars == <<router, retrieval, crag, answerGrade, backoff, extraVars>>

vars == <<status, error_message, chunks, audit_events, job, history,
          ssrfUrl, ssrfResult, ctArgs, ctChunks,
          router, retrieval, crag, answerGrade, backoff,
          rewriter, pipeline, embedder, memory_chunks, memoryJob>>

\* no call of the function is in progress
NoCall == [pc |-> "idle"]

MemoryIdle == memory_chunks = <<>> /\ memoryJob = NoCall

ExtraIdle ==
    /\ rewriter = NoCall
    /\ pipeline = NoCall
    /\ embedder = NoCall
    /\ MemoryIdle

UtilIdle ==
    /\ router = NoCall
    /\ retrieval = NoCall
    /\ crag = NoCall
    /\ answerGrade = NoCall
    /\ backoff = NoCall
    /\ ExtraIdle

(***************************************************************************)
(* String helpers (JavaScript String methods used by the code)             *)
(***************************************************************************)

\* s.endsWith(suffix)
EndsWith(s, suffix) ==
    /\ Len(suffix) <= Len(s)
    /\ SubSeq(s, Len(s) - Len(suffix) + 1, Len(s)) = suffix

\* s.startsWith(prefix), the regular expressions /^prefix/
StartsWith(s, prefix) ==
    /\ Len(prefix) <= Len(s)
    /\ SubSeq(s, 1, Len(prefix)) = prefix

\* s.split(ch) for a one-character separator
RECURSIVE SplitOn(_, _)
SplitOn(s, ch) ==
    IF \A i \in 1..Len(s) : s[i] # ch
    THEN <<s>>
    ELSE LET k == CHOOSE i \in 1..Len(s) :
                      s[i] = ch /\ \A j \in 1..(i - 1) : s[j] # ch
         IN <<SubSeq(s, 1, k - 1)>> \o SplitOn(SubSeq(s, k + 1, Len(s)), ch)

DigitChars == <<"0", "1", "2", "3", "4", "5", "6", "7", "8", "9">>

HexChars == DigitChars \o <<"a", "b", "c", "d", "e", "f">>

IsDigit(c) == \E i \in 1..10 : DigitChars[i] = c

DigitVal(c) == (CHOOSE i \in 1..10 : DigitChars[i] = c) - 1

\* Number(digits) for a string of decimal digits
RECURSIVE NumberOf(_)
NumberOf(ds) ==
    IF ds = <<>> THEN 0
    ELSE 10 * NumberOf(SubSeq(ds, 1, Len(ds) - 1)) + DigitVal(ds[Len(ds)])

\* decimal rendering of a natural number (no leading zeros)
RECURSIVE DecString(_)
DecString(n) ==
    IF n < 10 THEN <<DigitChars[n + 1]>>
    ELSE DecString(n \div 10) \o <<DigitChars[(n % 10) + 1]>>

\* lower-case hexadecimal rendering of a natural number (no leading zeros)
RECURSIVE HexString(_)
HexString(n) ==
    IF n < 16 THEN <<HexChars[n + 1]>>
    ELSE HexString(n \div 16) \o <<HexChars[(n % 16) + 1]>>

(***************************************************************************)
(* URL safety validator                                                    *)
(***************************************************************************)

\* The URLs handed to the validator, as the platform's URL parser sees them:
\* a scheme and a host that is an IPv4 literal, an IPv6 literal (first and
\* last 16-bit group, zero groups between) or a registered name.
OctetsA == {0, 1, 9, 10, 11, 99, 100, 101, 126, 127, 128, 168, 169, 170,
            171, 172, 173, 191, 192, 193, 197, 198, 199, 223, 224, 239, 255}

OctetsB == {0, 15, 16, 17, 18, 19, 20, 31, 32, 63, 64, 65, 127, 128,
            167, 168, 169, 253, 254, 255}

OctetsCD == {<<0, 0>>, <<0, 1>>, <<0, 5>>, <<169, 254>>, <<255, 255>>}

\* fe80 = 65152, febf = 65215, fec0 = 65216, fc00 = 64512, fdff = 65023,
\* fe00 = 65024, ff00 = 65280, ff02 = 65282, 2001 = 8193
FirstGroups == {0, 8193, 64511, 64512, 64513, 64768, 64786, 65023, 65024,
                65151, 65152, 65153, 65215, 65216, 65279, 65280, 65282, 65535}

LastGroups == {0, 1, 2}

HostNames == {
    <<"l","o","c","a","l","h","o","s","t">>,
    <<"a",".","l","o","c","a","l","h","o","s","t">>,
    <<"n","o","t","l","o","c","a","l","h","o","s","t">>,
    <<"l","v","h",".","m","e">>,
    <<"x",".","l","v","h",".","m","e">>,
    <<"l","o","c","a","l","t","e","s","t",".","m","e">>,
    <<"1","2","7",".","0",".","0",".","1",".","n","i","p",".","i","o">>,
    <<"m","e","t","a","d","a","t","a">>,
    <<"m","e","t","a","d","a","t","a",".","g","o","o","g","l","e",".",
      "i","n","t","e","r","n","a","l">>,
    <<"m","e","t","a","d","a","t","a",".","g","c","p",".",
      "i","n","t","e","r","n","a","l">>,
    <<"i","n","s","t","a","n","c","e","-","d","a","t","a">>,
    <<"e","x","a","m","p","l","e",".","c","o","m">>,
    <<"f","e","8","0",".","e","x","a","m","p","l","e",".","c","o","m">>
}

Protocols == {"http:", "https:", "ftp:", "file:"}

V4Hosts == {[kind |-> "v4", octets |-> <<a, b, cd[1], cd[2]>>] :
               a \in OctetsA, b \in OctetsB, cd \in OctetsCD}

V6Hosts == {[kind |-> "v6", first |-> h, last |-> l] :
               h \in FirstGroups, l \in LastGroups}

NameHosts == {[kind |-> "name", name |-> n] : n \in HostNames}

\* URL.hostname: the parser's serialisation of the host. IPv4 is rendered as
\* dotted decimal, IPv6 in brackets, lower-case hex, its run of zero groups
\* compressed to "::".
Hostname(host) ==
    CASE host.kind = "v4" ->
            DecString(host.octets[1]) \o <<".">> \o DecString(host.octets[2])
            \o <<".">> \o DecString(host.octets[3]) \o <<".">>
            \o DecString(host.octets[4])
      [] host.kind = "v6" ->
            <<"[">>
            \o (IF host.first = 0 THEN <<>> ELSE HexString(host.first))
            \o <<":", ":">>
            \o (IF host.last = 0 THEN <<>> ELSE HexString(host.last))
            \o <<"]">>
      [] OTHER -> host.name

\* new URL(url): protocol and hostname of the parsed URL
ParsedUrl(u) == [protocol |-> u.protocol, hostname |-> Hostname(u.host)]

localhostPatterns == {
    <<"l","o","c","a","l","h","o","s","t">>,
    <<"1","2","7",".","0",".","0",".","1">>,
    <<":",":","1">>,
    <<"0",".","0",".","0",".","0">>,
    <<"[",":",":","1","]">>,
    <<"0","1","7","7",".","0",".","0",".","1">>,
    <<"2","1","3","0","7","0","6","4","3","3">>,
    <<"0","x","7","f",".","0",".","0",".","1">>,
    <<"1","2","7",".","0",".","0",".","1",".","n","i","p",".","i","o">>,
    <<"l","o","c","a","l","t","e","s","t",".","m","e">>,
    <<"l","v","h",".","m","e">>
}

metadataHostnames == {
    <<"m","e","t","a","d","a","t","a",".","g","o","o","g","l","e",".",
      "i","n","t","e","r","n","a","l">>,
    <<"m","e","t","a","d","a","t","a",".","g","c","p",".",
      "i","n","t","e","r","n","a","l">>,
    <<"m","e","t","a","d","a","t","a">>,
    <<"i","n","s","t","a","n","c","e","-","d","a","t","a">>
}

\* hostname === pattern || hostname.endsWith('.' + pattern)
MatchesHostList(hostname, patterns) ==
    \E p \in patterns : hostname = p \/ EndsWith(hostname, <<".">> \o p)

\* hostname.match(/^(\d{1,3})\.(\d{1,3})\.(\d{1,3})\.(\d{1,3})$/) mapped
\* through Number: the four octets, or <<>> when the pattern does not match
ipv4Match(hostname) ==
    LET parts == SplitOn(hostname, ".")
    IN IF /\ Len(parts) = 4
          /\ \A i \in 1..4 :
                /\ Len(parts[i]) \in 1..3
                /\ \A k \in 1..Len(parts[i]) : IsDigit(parts[i][k])
       THEN <<NumberOf(parts[1]), NumberOf(parts[2]),
              NumberOf(parts[3]), NumberOf(parts[4])>>
       ELSE <<>>

\* Ipv4Blocked with the second half of 198.18.0.0/15 forgotten
Ipv4Blocked_Only18(octets) ==
    LET a == octets[1]
        b == octets[2]
    IN CASE \E i \in 1..4 : octets[i] > 255 -> "Invalid IP address"
         [] a = 10 -> "Access to private IP ranges is not allowed"
         [] a = 172 /\ b >= 16 /\ b <= 31 ->
                "Access to private IP ranges is not allowed"
         [] a = 192 /\ b = 168 -> "Access to private IP ranges is not allowed"
         [] a = 127 -> "Access to loopback addresses is not allowed"
         [] a = 169 /\ b = 254 ->
                "Access to link-local and cloud metadata addresses is not allowed"
         [] a = 0 -> "Access to current network addresses is not allowed"
         [] a = 100 /\ b >= 64 /\ b <= 127 ->
                "Access to carrier-grade NAT addresses is not allowed"
         [] a = 198 /\ b = 18 ->
                "Access to benchmark testing addresses is not allowed"
         [] a >= 224 ->
                "Access to multicast and broadcast addresses is not allowed"
         [] OTHER -> ""

\* the IPv4 range checks, in the code's order: the error message, or "" when
\* no check fires
Ipv4Blocked(octets) ==
    LET a == octets[1]
        b == octets[2]
    IN CASE \E i \in 1..4 : octets[i] > 255 -> "Invalid IP address"
         [] a = 10 -> "Access to private IP ranges is not allowed"
         [] a = 172 /\ b >= 16 /\ b <= 31 ->
                "Access to private IP ranges is not allowed"
         [] a = 192 /\ b = 168 -> "Access to private IP ranges is not allowed"
         [] a = 127 -> "Access to loopback addresses is not allowed"
         [] a = 169 /\ b = 254 ->
                "Access to link-local and cloud metadata addresses is not allowed"
         [] a = 0 -> "Access to current network addresses is not allowed"
         [] a = 100 /\ b >= 64 /\ b <= 127 ->
                "Access to carrier-grade NAT addresses is not allowed"
         [] a = 198 /\ (b = 18 \/ b = 19) ->
                "Access to benchmark testing addresses is not allowed"
         [] a >= 224 ->
                "Access to multicast and broadcast addresses is not allowed"
         [] OTHER -> ""

\* ipv6Patterns.some(pattern => pattern.test(hostname))
Ipv6Blocked(hostname) ==
    \/ hostname = <<":", ":", "1">>
    \/ StartsWith(hostname, <<"f", "e", "8", "0", ":">>)
    \/ StartsWith(hostname, <<"f", "c", "0", "0", ":">>)
    \/ StartsWith(hostname, <<"f", "d", "0", "0", ":">>)
    \/ StartsWith(hostname, <<"f", "f", "0", "0", ":">>)
    \/ hostname = <<"[", ":", ":", "1", "]">>
    \/ StartsWith(hostname, <<"[", "f", "e", "8", "0", ":">>)
    \/ StartsWith(hostname, <<"[", "f", "c", "0", "0", ":">>)
    \/ StartsWith(hostname, <<"[", "f", "d", "0", "0", ":">>)

Rejected(msg) == [ok |-> FALSE, error |-> msg]

\* validateUrlForSsrf(url): the parsed URL, or the error it throws
validateUrlForSsrf(u) ==
    LET parsedUrl == ParsedUrl(u)
        hostname  == parsedUrl.hostname
        octets    == ipv4Match(hostname)
    IN IF parsedUrl.protocol \notin {"http:", "https:"}
       THEN Rejected("Protocol not allowed")
       ELSE IF MatchesHostList(hostname, localhostPatterns)
       THEN Rejected("Access to localhost is not allowed")
       ELSE IF octets # <<>> /\ Ipv4Blocked(octets) # ""
       THEN Rejected(Ipv4Blocked(octets))
       ELSE IF Ipv6Blocked(hostname)
       THEN Rejected("Access to private IPv6 addresses is not allowed")
       ELSE IF MatchesHostList(hostname, metadataHostnames)
       THEN Rejected("Access to cloud metadata endpoints is not allowed")
       ELSE [ok |-> TRUE, url |-> parsedUrl]

(***************************************************************************)
(* Chunker                                                                 *)
(***************************************************************************)

CHARS_PER_TOKEN_ESTIMATE == 4

searchWindow == 200

Max(a, b) == IF a >= b THEN a ELSE b

Min(a, b) == IF a <= b THEN a ELSE b

\* characters matched by \s
IsSpace(c) == c \in {" ", "\n", "\t"}

\* SliceFrom that starts one character late
SliceFrom_SkipOne(s, from) == SubSeq(s, from + 2, Len(s))

\* s.slice(from) and s.slice(from, to) with 0-based, non-negative offsets
SliceFrom(s, from) == SubSeq(s, from + 1, Len(s))

Slice(s, from, to) == SubSeq(s, from + 1, Min(to, Len(s)))

\* s.trim()
RECURSIVE TrimStart(_)
TrimStart(s) ==
    IF s # <<>> /\ IsSpace(s[1]) THEN TrimStart(Tail(s)) ELSE s

RECURSIVE TrimEnd(_)
TrimEnd(s) ==
    IF s # <<>> /\ IsSpace(s[Len(s)])
    THEN TrimEnd(SubSeq(s, 1, Len(s) - 1))
    ELSE s

Trim(s) == TrimEnd(TrimStart(s))

\* length of the run of "\n" that starts at 1-based position i
RECURSIVE NewlineRun(_, _)
NewlineRun(s, i) ==
    IF i <= Len(s) /\ s[i] = "\n" THEN 1 + NewlineRun(s, i + 1) ELSE 0

\* text.split(/\n\n+/)
RECURSIVE SplitParagraphs(_)
SplitParagraphs(s) ==
    IF \A i \in 1..Len(s) : NewlineRun(s, i) < 2
    THEN <<s>>
    ELSE LET k == CHOOSE i \in 1..Len(s) :
                      /\ NewlineRun(s, i) >= 2
                      /\ \A j \in 1..(i - 1) : NewlineRun(s, j) < 2
         IN <<SubSeq(s, 1, k - 1)>>
            \o SplitParagraphs(SubSeq(s, k + NewlineRun(s, k), Len(s)))

\* length of the run of whitespace that starts at 1-based position i
RECURSIVE SpaceRun(_, _)
SpaceRun(s, i) ==
    IF i <= Len(s) /\ IsSpace(s[i]) THEN 1 + SpaceRun(s, i + 1) ELSE 0

\* the loop over sentenceEndRegex.exec(searchText): scans searchText from
\* 1-based position i for the next match of /[.!?]\s+/ and keeps the match
\* end that is strictly closer to targetChars than the best so far
RECURSIVE ScanSentenceEnds(_, _, _, _, _)
ScanSentenceEnds(searchText, i, searchStart, targetChars, bestSplit) ==
    IF i > Len(searchText) THEN bestSplit
    ELSE IF searchText[i] \in {".", "!", "?"} /\ SpaceRun(searchText, i + 1) > 0
    THEN LET matchLen == 1 + SpaceRun(searchText, i + 1)
             absolutePosition == searchStart + (i - 1) + matchLen
             dNew == IF absolutePosition >= targetChars
                     THEN absolutePosition - targetChars
                     ELSE targetChars - absolutePosition
             dOld == IF bestSplit >= targetChars
                     THEN bestSplit - targetChars
                     ELSE targetChars - bestSplit
         IN ScanSentenceEnds(searchText, i + matchLen, searchStart, targetChars,
                             IF dNew < dOld THEN absolutePosition ELSE bestSplit)
    ELSE ScanSentenceEnds(searchText, i + 1, searchStart, targetChars, bestSplit)

\* findSplitPoint answering one character before the target offset
findSplitPoint_OneShort(text, targetChars) == targetChars - 1

findSplitPoint(text, targetChars) ==
    LET searchStart == Max(0, targetChars - searchWindow)
        searchEnd   == Min(Len(text), targetChars + searchWindow)
        searchText  == Slice(text, searchStart, searchEnd)
    IN ScanSentenceEnds(searchText, 1, searchStart, targetChars, targetChars)

\* ExceedsSplitLimit with the factor 2 in place of 1.5
ExceedsSplitLimit_Twice(currentChunk, targetChars) ==
    Len(currentChunk) > 2 * targetChars

\* currentChunk.length > targetChars * 1.5
ExceedsSplitLimit(currentChunk, targetChars) ==
    2 * Len(currentChunk) > 3 * targetChars

\* one iteration of the while loop of chunkText on the state [cur, out]
SplitOnce(st, targetChars, overlapChars) ==
    LET splitPoint   == findSplitPoint(st.cur, targetChars)
        overlapStart == Max(0, splitPoint - overlapChars)
    IN [cur |-> SliceFrom(st.cur, overlapStart),
        out |-> Append(st.out, Trim(Slice(st.cur, 0, splitPoint)))]

\* the while loop of chunkText on the state [cur, out]
RECURSIVE ForceSplit(_, _, _)
ForceSplit(st, targetChars, overlapChars) ==
    IF ExceedsSplitLimit(st.cur, targetChars)
    THEN ForceSplit(SplitOnce(st, targetChars, overlapChars), targetChars, overlapChars)
    ELSE st

\* the if/else that opens an iteration of the for loop, for a paragraph
\* that is not blank: the buffer the while loop starts from
Joined(st, trimmedParagraph, targetChars, overlapChars) ==
    IF /\ Len(st.cur) + Len(trimmedParagraph) > targetChars
       /\ Len(st.cur) > 0
    THEN LET overlapStart == Max(0, Len(st.cur) - overlapChars)
         IN [cur |-> SliceFrom(st.cur, overlapStart)
                     \o <<"\n", "\n">> \o trimmedParagraph,
             out |-> Append(st.out, Trim(st.cur))]
    ELSE [cur |-> st.cur
                  \o (IF st.cur # <<>> THEN <<"\n", "\n">> ELSE <<>>)
                  \o trimmedParagraph,
          out |-> st.out]

\* one iteration of the for loop over the paragraphs
AddParagraph(st, paragraph, targetChars, overlapChars) ==
    LET trimmedParagraph == Trim(paragraph)
    IN IF trimmedParagraph = <<>> THEN st
       ELSE ForceSplit(Joined(st, trimmedParagraph, targetChars, overlapChars),
                       targetChars, overlapChars)

RECURSIVE ChunkLoop(_, _, _, _)
ChunkLoop(st, paragraphs, targetChars, overlapChars) ==
    IF paragraphs = <<>> THEN st
    ELSE ChunkLoop(AddParagraph(st, Head(paragraphs), targetChars, overlapChars),
                   Tail(paragraphs), targetChars, overlapChars)

\* chunkText(text, targetTokens, overlapTokens): the list of {text, index}
chunkText(text, targetTokens, overlapTokens) ==
    LET targetChars  == targetTokens * CHARS_PER_TOKEN_ESTIMATE
        overlapChars == overlapTokens * CHARS_PER_TOKEN_ESTIMATE
        st   == ChunkLoop([cur |-> <<>>, out |-> <<>>], SplitParagraphs(text),
                          targetChars, overlapChars)
        outs == IF Trim(st.cur) # <<>> THEN Append(st.out, Trim(st.cur))
                ELSE st.out
    IN [i \in 1..Len(outs) |-> [text |-> outs[i], index |-> i - 1]]

(***************************************************************************)
(* Specification SpecSsrf: one call of validateUrlForSsrf on each URL      *)
(***************************************************************************)

UrlInputs == {[protocol |-> p, host |-> h] :
                 p \in Protocols, h \in V4Hosts \cup V6Hosts \cup NameHosts}

NotCalled == [ok |-> FALSE, error |-> "not called"]

SsrfIdle == ssrfUrl = [protocol |-> "none"] /\ ssrfResult = NotCalled

ChunkIdle == ctArgs = <<>> /\ ctChunks = [called |-> FALSE, chunks |-> <<>>]

IngestIdle ==
    /\ status = <<>>
    /\ error_message = <<>>
    /\ chunks = <<>>
    /\ audit_events = <<>>
    /\ job = <<>>
    /\ history = <<>>

InitSsrf ==
    /\ ssrfUrl \in UrlInputs
    /\ ssrfResult = NotCalled
    /\ ChunkIdle
    /\ IngestIdle
    /\ UtilIdle

CallValidateUrl ==
    /\ ssrfResult = NotCalled
    /\ ssrfResult' = validateUrlForSsrf(ssrfUrl)
    /\ UNCHANGED <<ssrfUrl, chunkVars, ingestVars, utilVars>>

NextSsrf == CallValidateUrl

SpecSsrf == InitSsrf /\ [][NextSsrf]_vars

SsrfCalled == ssrfResult # NotCalled

\* the address ranges of the URL safety rules, on the octets of the input
InBlockedV4Range(o) ==
    \/ o[1] = 0
    \/ o[1] = 10
    \/ o[1] = 127
    \/ o[1] >= 224
    \/ o[1] = 100 /\ 64 <= o[2] /\ o[2] <= 127
    \/ o[1] = 169 /\ o[2] = 254
    \/ o[1] = 172 /\ 16 <= o[2] /\ o[2] <= 31
    \/ o[1] = 192 /\ o[2] = 168
    \/ o[1] = 198 /\ o[2] \in {18, 19}

\* C8: an http/https URL with a dotted-quad host is rejected exactly when the
\* address lies in one of the listed ranges and otherwise the parsed URL is
\* returned; a URL of any other scheme is rejected whatever its host.
C8_Ipv4RangesExact ==
    SsrfCalled =>
        /\ (ssrfUrl.protocol \in {"http:", "https:"} /\ ssrfUrl.host.kind = "v4") =>
              /\ ssrfResult.ok = ~InBlockedV4Range(ssrfUrl.host.octets)
              /\ ssrfResult.ok =>
                    /\ ssrfResult.url.protocol = ssrfUrl.protocol
                    /\ ipv4Match(ssrfResult.url.hostname) = ssrfUrl.host.octets
        /\ ssrfUrl.protocol \notin {"http:", "https:"} => ~ssrfResult.ok

C8_Witness ==
    /\ SsrfCalled
    /\ ssrfUrl.protocol = "https:"
    /\ ssrfUrl.host.kind = "v4"
    /\ ssrfUrl.host.octets = <<198, 19, 0, 5>>
    /\ ~ssrfResult.ok

\* 16-bit first group of an address in fe80::/10, fc00::/7 or ff00::/8, or
\* the loopback address ::1
InBlockedV6Range(h) ==
    \/ h.first = 0 /\ h.last = 1
    \/ h.first \div 64 = 65152 \div 64
    \/ h.first \div 512 = 64512 \div 512
    \/ h.first \div 256 = 65280 \div 256

\* C9: every http/https URL whose host is an IPv6 literal that is loopback,
\* link-local, unique-local or multicast is rejected.
C9_Ipv6RangesRejected ==
    (/\ SsrfCalled
     /\ ssrfUrl.protocol \in {"http:", "https:"}
     /\ ssrfUrl.host.kind = "v6"
     /\ InBlockedV6Range(ssrfUrl.host)) => ~ssrfResult.ok

(***************************************************************************)
(* Specification SpecChunk: one call of chunkText on each bounded input    *)
(***************************************************************************)

MaxPieces == 6

MaxTarget == 2

\* the input texts are concatenations of at most MaxPieces of these pieces
Pieces == {<<"a", "a", "a">>, <<"b", ".", " ">>, <<"\n", "\n">>, <<"c", " ">>}

RECURSIVE Flatten(_)
Flatten(ps) == IF ps = <<>> THEN <<>> ELSE Head(ps) \o Flatten(Tail(ps))

ChunkInputs ==
    {[text |-> Flatten(ps), targetTokens |-> t, overlapTokens |-> v] :
        ps \in UNION {[1..n -> Pieces] : n \in 0..MaxPieces},
        t \in 1..MaxTarget, v \in 0..(MaxTarget - 1)}

NotChunked == [called |-> FALSE, chunks |-> <<>>]

InitChunk ==
    /\ ctArgs \in {a \in ChunkInputs : a.overlapTokens < a.targetTokens}
    /\ ctChunks = NotChunked
    /\ SsrfIdle
    /\ IngestIdle
    /\ UtilIdle

CallChunkText ==
    /\ ctChunks = NotChunked
    /\ ctChunks' = [called |-> TRUE,
                    chunks |-> chunkText(ctArgs.text, ctArgs.targetTokens,
                                         ctArgs.overlapTokens)]
    /\ UNCHANGED <<ctArgs, ssrfVars, ingestVars, utilVars>>

NextChunk == CallChunkText

SpecChunk == InitChunk /\ [][NextChunk]_vars

ChunkCalled == ctChunks.called

\* C10: every chunk that chunkText returns is at most 1.5 x T x 4 characters
\* long (paragraph-boundary chunks, force-split chunks and the final chunk).
C10_ChunkLengthBounded ==
    ChunkCalled =>
        \A i \in 1..Len(ctChunks.chunks) :
            2 * Len(ctChunks.chunks[i].text)
                <= 3 * ctArgs.targetTokens * CHARS_PER_TOKEN_ESTIMATE

\* a single paragraph longer than the limit was force-split, with overlap
C10_Witness ==
    /\ ChunkCalled
    /\ ctArgs.targetTokens = 2
    /\ ctArgs.overlapTokens = 1
    /\ \A i \in 1..Len(ctArgs.text) : ctArgs.text[i] # "\n"
    /\ 2 * Len(Trim(ctArgs.text)) > 3 * ctArgs.targetTokens * CHARS_PER_TOKEN_ESTIMATE
    /\ Len(ctChunks.chunks) >= 2
    /\ \E i \in 1..Len(ctChunks.chunks) :
          Len(ctChunks.chunks[i].text) = ctArgs.targetTokens * CHARS_PER_TOKEN_ESTIMATE

\* the characters of s that \s does not match
NonWhitespace(s) == SelectSeq(s, LAMBDA c : ~IsSpace(c))

\* the chunk bodies from the k-th on can be appended to built, each without
\* an overlap it shares with the end of its predecessor prev, so that the
\* result is exactly the text full
RECURSIVE Reconstructs(_, _, _, _, _)
Reconstructs(built, prev, bodies, k, full) ==
    IF k > Len(bodies) THEN built = full
    ELSE \E o \in 0..Min(Len(prev), Len(bodies[k])) :
            /\ SubSeq(bodies[k], 1, o) = SubSeq(prev, Len(prev) - o + 1, Len(prev))
            /\ Reconstructs(built \o SubSeq(bodies[k], o + 1, Len(bodies[k])),
                            bodies[k], bodies, k + 1, full)

\* C11: the chunks cover the input: in index order, with the overlap each
\* chunk shares with its predecessor removed, they reconstruct the input up
\* to whitespace, and the indexes count up from 0.
C11_ChunksCoverInput ==
    ChunkCalled =>
        LET bodies == [i \in 1..Len(ctChunks.chunks) |->
                          NonWhitespace(ctChunks.chunks[i].text)]
        IN /\ \A i \in 1..Len(ctChunks.chunks) : ctChunks.chunks[i].index = i - 1
           /\ Reconstructs(<<>>, <<>>, bodies, 1, NonWhitespace(ctArgs.text))

\* a text of several paragraphs cut into at least three overlapping chunks
C11_Witness ==
    /\ ChunkCalled
    /\ ctArgs.overlapTokens = 1
    /\ Len(SplitParagraphs(ctArgs.text)) >= 2
    /\ Len(ctChunks.chunks) >= 3
    /\ Len(NonWhitespace(ctArgs.text)) >= 12

(***************************************************************************)
(* Ingestion pipeline: data                                                *)
(***************************************************************************)

EMBEDDING_BATCH_SIZE == 2   \* scaled down from 100 to keep the documents small

MaxJobs == 2

Sources == {"s1", "s2"}

Workers == {"w1", "w2"}

\* What the reader/extractor makes of a fetched or rendered page, by the
\* quantities the code looks at: whether the html is the empty string,
\* whether Readability returns an article, textContent.length, the number of
\* non-whitespace characters, whether a bot-challenge phrase occurs in the
\* text or the title, the number of words longer than 3 characters and of
\* distinct ones, and the text itself (doc).
Page(id, htmlEmpty, article, len, nonWs, bot, titleBot, words, unique, doc) ==
    [id |-> id, htmlEmpty |-> htmlEmpty, article |-> article, len |-> len,
     nonWs |-> nonWs, bot |-> bot, titleBot |-> titleBot, words |-> words,
     unique |-> unique, doc |-> doc]

Pages == {
    Page("empty",    TRUE,  FALSE, 0,    0,    FALSE, FALSE, 0,   0,   "none"),
    Page("noart",    FALSE, FALSE, 0,    0,    FALSE, FALSE, 0,   0,   "none"),
    Page("short",    FALSE, TRUE,  99,   80,   FALSE, FALSE, 12,  12,  "none"),
    Page("len100",   FALSE, TRUE,  100,  85,   FALSE, FALSE, 12,  12,  "none"),
    Page("thin",     FALSE, TRUE,  260,  199,  FALSE, FALSE, 30,  25,  "T"),
    Page("bot",      FALSE, TRUE,  5000, 4000, TRUE,  FALSE, 600, 300, "none"),
    Page("bottitle", FALSE, TRUE,  5000, 4000, FALSE, TRUE,  600, 300, "none"),
    Page("repeat",   FALSE, TRUE,  5000, 4000, FALSE, FALSE, 600, 179, "none"),
    Page("docA",     FALSE, TRUE,  5000, 4000, FALSE, FALSE, 600, 300, "A"),
    Page("docB",     FALSE, TRUE,  4000, 3200, FALSE, FALSE, 500, 250, "B")
}

NoPage == Page("nopage", TRUE, FALSE, 0, 0, FALSE, FALSE, 0, 0, "none")

\* chunkText(cleanText(content), CHUNK_TARGET_TOKENS, CHUNK_OVERLAP_TOKENS) of
\* the two documents: the chunk texts in order (chunkText itself is modelled
\* above; here a document is identified with its chunk sequence)
ChunkTextsOf(doc) ==
    CASE doc = "A" -> <<"p", "q", "p">>
      [] doc = "B" -> <<"q", "r">>
      [] doc = "T" -> <<"t">>
      [] OTHER -> <<>>

\* the page of the k-th chunk of a paged (PDF) document: two chunks a page
PageOfChunk(k) == (k + 1) \div 2

NullPage == 0

\* hashContent(text): sha256, taken to be collision free
hashContent(text) == <<"sha256", text>>

\* the vector the embedding model computes for a text
VectorOf(text) == <<"vec", text>>

\* `[${embedding.join(',')}]`: the text form written to chunks.embedding
FormatEmbedding(embedding) == <<"[", embedding, "]">>

\* chunks.embedding as a select returns it (Chunk.embedding: number[])
ReadEmbedding(stored) == stored[2]

InternalUrl == [protocol |-> "http:",
                host |-> [kind |-> "v4", octets |-> <<169, 254, 169, 254>>]]

JobUrls == {
    [protocol |-> "https:",
     host |-> [kind |-> "name",
               name |-> <<"e","x","a","m","p","l","e",".","c","o","m">>]],
    [protocol |-> "http:", host |-> [kind |-> "v4", octets |-> <<10, 0, 0, 5>>]],
    [protocol |-> "ftp:",
     host |-> [kind |-> "name",
               name |-> <<"e","x","a","m","p","l","e",".","c","o","m">>]]
}

NoUrl == [protocol |-> "none", host |-> [kind |-> "name", name |-> <<>>]]

MimeTypes == {"application/pdf", "text/plain", "image/png"}

NoError == <<>>

NoHistory == [finished |-> FALSE, ok |-> FALSE, doc |-> "none", paged |-> FALSE,
              records |-> <<>>]

IdleJob == [
    pc |-> "idle", type |-> "none", sourceId |-> "none", url |-> NoUrl,
    mimeType |-> "none", playwright |-> FALSE,
    page |-> NoPage, title |-> "none", content |-> NoPage, servedBy |-> NoUrl,
    paged |-> FALSE, chunkList |-> <<>>, i |-> 0, existingHashMap |-> {},
    textsToEmbed |-> <<>>, chunkRecords |-> <<>>,
    thrown |-> NoError, raised |-> NoError, rethrown |-> NoError,
    statusWrites |-> <<>>, netLog |-> <<>>, embedCalls |-> 0,
    accepted |-> FALSE, rowsBefore |-> <<>>, auditBefore |-> 0,
    inserted |-> <<>>, recordsBuilt |-> FALSE, prev |-> NoHistory
]

\* rows of table chunks that belong to a Source, in table order
RECURSIVE RowsOf(_, _)
RowsOf(rows, s) ==
    IF rows = <<>> THEN <<>>
    ELSE IF Head(rows).source_id = s
    THEN <<Head(rows)>> \o RowsOf(Tail(rows), s)
    ELSE RowsOf(Tail(rows), s)

RECURSIVE RowsNotOf(_, _)
RowsNotOf(rows, s) ==
    IF rows = <<>> THEN <<>>
    ELSE IF Head(rows).source_id # s
    THEN <<Head(rows)>> \o RowsNotOf(Tail(rows), s)
    ELSE RowsNotOf(Tail(rows), s)

\* Source s1 is new; Source s2 was ingested before and holds one chunk
Init ==
    /\ status = [s \in Sources |-> IF s = "s1" THEN "queued" ELSE "ready"]
    /\ error_message = [s \in Sources |-> NoError]
    /\ chunks = <<[source_id |-> "s2", idx |-> 0, page |-> NullPage, text |-> "q",
                   content_hash |-> hashContent("q"),
                   embedding |-> FormatEmbedding(VectorOf("q"))]>>
    /\ audit_events = <<>>
    /\ job = [w \in Workers |-> IdleJob]
    /\ history = [started |-> 0, last |-> [s \in Sources |-> NoHistory]]
    /\ SsrfIdle
    /\ ChunkIdle
    /\ UtilIdle

(***************************************************************************)
(* Ingestion pipeline: the worker's handler and the two processors.        *)
(* One action per awaited call; the synchronous code that follows a call   *)
(* up to the next await belongs to the same action.                        *)
(***************************************************************************)

SetJob(w, j) == job' = [job EXCEPT ![w] = j]

\* supabase.from('sources').update({status, error_message?}).eq('id', sourceId)
UpdateSource(s, st, msg) ==
    /\ status' = [status EXCEPT ![s] = st]
    /\ error_message' = IF msg = NoError THEN error_message
                        ELSE [error_message EXCEPT ![s] = msg]

\* a job record after it wrote a status (bookkeeping of the writes)
Wrote(j, st) == [j EXCEPT !.statusWrites = Append(@, st)]

\* an error leaves the processor: control passes to the handler's catch
Throw(j, msg) ==
    [j EXCEPT !.pc = "catch", !.thrown = msg,
              !.raised = IF @ = NoError THEN msg ELSE @]

\* the queue hands a job to the handler (new Worker('ingest', async (job) ...))
Pickup(w, s) ==
    /\ job[w].pc \in {"idle", "completed", "failed"}
    /\ history.started < MaxJobs
    /\ \E t \in {"ingest_url", "ingest_file"}, u \in JobUrls, m \in MimeTypes,
          pw \in BOOLEAN :
          /\ t = "ingest_url" => m = "text/plain"
          /\ t = "ingest_file" => (u.protocol = "https:" /\ pw)
          /\ SetJob(w, [IdleJob EXCEPT
                 !.pc = "start", !.type = t, !.sourceId = s,
                 !.url = IF t = "ingest_url" THEN u ELSE NoUrl,
                 !.mimeType = IF t = "ingest_file" THEN m ELSE "none",
                 !.playwright = IF t = "ingest_url" THEN pw ELSE FALSE,
                 !.rowsBefore = RowsOf(chunks, s),
                 !.prev = history.last[s],
                 !.auditBefore = Len(audit_events)])
    /\ history' = [history EXCEPT !.started = @ + 1]
    /\ UNCHANGED <<status, error_message, chunks, audit_events, ssrfVars, chunkVars, utilVars>>

\* UrlValidate whose catch records the failure but does not throw
UrlValidate_NoThrow(w) ==
    LET j == job[w]
        v == validateUrlForSsrf(j.url)
    IN /\ j.pc = "start"
       /\ j.type = "ingest_url"
       /\ IF ~v.ok
          THEN /\ UpdateSource(j.sourceId, "extracting",
                               <<"Security validation failed: ", v.error>>)
               /\ SetJob(w, [Wrote(Wrote(j, "failed"), "extracting") EXCEPT
                                !.pc = "fetch"])
          ELSE /\ UpdateSource(j.sourceId, "extracting", NoError)
               /\ SetJob(w, [Wrote(j, "extracting") EXCEPT
                                !.pc = "fetch", !.accepted = TRUE])
       /\ UNCHANGED <<chunks, audit_events, history, ssrfVars, chunkVars, utilVars>>

\* processIngestUrl: validateUrlForSsrf(url), then the first update
UrlValidate(w) ==
    LET j == job[w]
        v == validateUrlForSsrf(j.url)
    IN /\ j.pc = "start"
       /\ j.type = "ingest_url"
       /\ IF ~v.ok
          THEN /\ UpdateSource(j.sourceId, "failed",
                               <<"Security validation failed: ", v.error>>)
               /\ SetJob(w, [Throw(Wrote(j, "failed"),
                                   <<"URL blocked by security policy: ", v.error>>)
                             EXCEPT !.raised = <<v.error>>])
          ELSE /\ UpdateSource(j.sourceId, "extracting", NoError)
               /\ SetJob(w, [Wrote(j, "extracting") EXCEPT
                                !.pc = "fetch", !.accepted = TRUE])
       /\ UNCHANGED <<chunks, audit_events, history, ssrfVars, chunkVars, utilVars>>

\* validateContent(content, title): the reason, or NoError when valid
validateContent(content) ==
    IF content.bot \/ content.titleBot
    THEN <<"Bot protection detected">>
    ELSE IF content.nonWs < 200
    THEN <<"Content too short (less than 200 characters)">>
    ELSE IF content.words > 20 /\ 10 * content.unique < 3 * content.words
    THEN <<"Content appears repetitive (possible blocked page)">>
    ELSE NoError

\* the call of processExtractedContent up to its first await
EnterExtracted(j, content, served) ==
    LET jc == [j EXCEPT !.content = content, !.servedBy = served,
                        !.page = NoPage]
    IN IF validateContent(content) # NoError
       THEN [jc EXCEPT !.pc = "writeInvalid"]
       ELSE [jc EXCEPT !.pc = "writeChunking"]

\* Readability on the html of the first tier, and the decision to fall back
AfterHtml(j, page, served) ==
    IF ~page.article \/ page.len < 100
    THEN IF j.playwright /\ ~page.htmlEmpty
         THEN [j EXCEPT !.pc = "render2", !.page = page]
         ELSE Throw([j EXCEPT !.page = page],
                    <<"Could not extract meaningful content from URL">>)
    ELSE EnterExtracted(j, page, served)

\* the hosts that may serve the response of a request for url: the host of
\* the URL, or the target of a redirect the fetch followed
ServedBy(url) == {url, InternalUrl}

\* fetch(url): throws, answers with a non-success status, or answers with html
UrlFetch(w) ==
    LET j == job[w]
        jl == [j EXCEPT !.netLog = Append(@, "fetch")]
    IN /\ j.pc = "fetch"
       /\ \/ \E failure \in {<<"fetch failed">>, <<"Failed to fetch URL: ", "404">>} :
                SetJob(w, IF j.playwright
                          THEN [jl EXCEPT !.pc = "render1"]
                          ELSE Throw(jl, failure))
          \/ \E page \in Pages, served \in ServedBy(j.url) :
                SetJob(w, AfterHtml(jl, page, served))
       /\ UNCHANGED <<status, error_message, chunks, audit_events, history,
                      ssrfVars, chunkVars, utilVars>>

\* fetchWithPlaywright(url) in the catch of the direct fetch
UrlRenderAfterError(w) ==
    LET j == job[w]
        jl == [j EXCEPT !.netLog = Append(@, "render")]
    IN /\ j.pc = "render1"
       /\ \/ SetJob(w, Throw(jl, <<"page.goto: Timeout 60000ms exceeded">>))
          \/ \E page \in Pages, served \in ServedBy(j.url) :
                SetJob(w, AfterHtml(jl, page, served))
       /\ UNCHANGED <<status, error_message, chunks, audit_events, history,
                      ssrfVars, chunkVars, utilVars>>

\* fetchWithPlaywright(url) when the first tier's text was too short
UrlRenderTooShort(w) ==
    LET j == job[w]
        jl == [j EXCEPT !.netLog = Append(@, "render")]
    IN /\ j.pc = "render2"
       /\ \/ SetJob(w, Throw(jl, <<"page.goto: Timeout 60000ms exceeded">>))
          \/ \E page \in Pages, served \in ServedBy(j.url) :
                SetJob(w, IF page.article /\ page.len > 100
                          THEN EnterExtracted(jl, page, served)
                          ELSE Throw([jl EXCEPT !.page = page],
                                     <<"Could not extract meaningful content from URL">>))
       /\ UNCHANGED <<status, error_message, chunks, audit_events, history,
                      ssrfVars, chunkVars, utilVars>>

\* processExtractedContent: validation failed
WriteInvalid(w) ==
    LET j == job[w]
        reason == validateContent(j.content)
    IN /\ j.pc = "writeInvalid"
       /\ UpdateSource(j.sourceId, "failed", reason)
       /\ SetJob(w, Throw(Wrote(j, "failed"), reason))
       /\ UNCHANGED <<chunks, audit_events, history, ssrfVars, chunkVars, utilVars>>

\* processIngestFile: the first update
FileStart(w) ==
    LET j == job[w]
    IN /\ j.pc = "start"
       /\ j.type = "ingest_file"
       /\ UpdateSource(j.sourceId, "extracting", NoError)
       /\ SetJob(w, [Wrote(j, "extracting") EXCEPT !.pc = "download"])
       /\ UNCHANGED <<chunks, audit_events, history, ssrfVars, chunkVars, utilVars>>

\* supabase.storage.from(STORAGE_BUCKET).download(storagePath)
FileDownload(w) ==
    LET j == job[w]
    IN /\ j.pc = "download"
       /\ \/ SetJob(w, Throw(j, <<"Failed to download file: ", "Object not found">>))
          \/ SetJob(w, IF j.mimeType \in {"application/pdf", "text/plain"}
                       THEN [j EXCEPT !.pc = "extract"]
                       ELSE Throw(j, <<"Unsupported mime type: ", j.mimeType>>))
       /\ UNCHANGED <<status, error_message, chunks, audit_events, history,
                      ssrfVars, chunkVars, utilVars>>

FilePages == {pg \in Pages : pg.id \in {"thin", "docA", "docB"}}

\* extractPdfText(fileData) / fileData.text()
FileExtract(w) ==
    LET j == job[w]
    IN /\ j.pc = "extract"
       /\ \/ /\ j.mimeType = "application/pdf"
             /\ SetJob(w, Throw(j, <<"Invalid PDF structure">>))
          \/ \E page \in FilePages :
                SetJob(w, [j EXCEPT !.pc = "writeChunking", !.content = page,
                                    !.paged = (j.mimeType = "application/pdf")])
       /\ UNCHANGED <<status, error_message, chunks, audit_events, history,
                      ssrfVars, chunkVars, utilVars>>

\* the chunks of the extracted content: chunkText on the whole text, or page
\* by page with a running index when the PDF extractor returned pages
ChunksOfContent(content, paged) ==
    LET texts == ChunkTextsOf(content.doc)
    IN [k \in 1..Len(texts) |->
           [text |-> texts[k], index |-> k - 1,
            page |-> IF paged THEN PageOfChunk(k) ELSE NullPage]]

\* update({status: 'chunking', ...}), then cleanText and chunkText
WriteChunking(w) ==
    LET j == job[w]
    IN /\ j.pc = "writeChunking"
       /\ UpdateSource(j.sourceId, "chunking", NoError)
       /\ SetJob(w, [Wrote(j, "chunking") EXCEPT
                        !.pc = "writeEmbedding",
                        !.chunkList = ChunksOfContent(j.content, j.paged)])
       /\ UNCHANGED <<chunks, audit_events, history, ssrfVars, chunkVars, utilVars>>

\* control at the head of the batch loop: for (i < chunks.length)
LoopHead(j) ==
    IF j.i < Len(j.chunkList)
    THEN [j EXCEPT !.pc = "lookup"]
    ELSE [j EXCEPT !.pc = "delete", !.recordsBuilt = TRUE]

\* WriteEmbedding with the status update left out
WriteEmbedding_NoUpdate(w) ==
    LET j == job[w]
    IN /\ j.pc = "writeEmbedding"
       /\ SetJob(w, LoopHead([j EXCEPT !.i = 0]))
       /\ UNCHANGED <<status, error_message, chunks, audit_events, history,
                      ssrfVars, chunkVars, utilVars>>

\* WriteEmbedding that also deletes the Source's rows, ahead of the loop
WriteEmbedding_DeleteFirst(w) ==
    LET j == job[w]
    IN /\ j.pc = "writeEmbedding"
       /\ UpdateSource(j.sourceId, "embedding", NoError)
       /\ chunks' = RowsNotOf(chunks, j.sourceId)
       /\ SetJob(w, LoopHead([Wrote(j, "embedding") EXCEPT !.i = 0]))
       /\ UNCHANGED <<audit_events, history, ssrfVars, chunkVars, utilVars>>

\* update({status: 'embedding'}), then the loop is entered
WriteEmbedding(w) ==
    LET j == job[w]
    IN /\ j.pc = "writeEmbedding"
       /\ UpdateSource(j.sourceId, "embedding", NoError)
       /\ SetJob(w, LoopHead([Wrote(j, "embedding") EXCEPT !.i = 0]))
       /\ UNCHANGED <<chunks, audit_events, history, ssrfVars, chunkVars, utilVars>>

\* chunks.slice(i, i + EMBEDDING_BATCH_SIZE)
BatchOf(j) ==
    SubSeq(j.chunkList, j.i + 1, Min(j.i + EMBEDDING_BATCH_SIZE, Len(j.chunkList)))

\* keys of a Map held as a set of <<key, value>> pairs
MapHas(m, key) == \E e \in m : e[1] = key

MapGet(m, key) == (CHOOSE e \in m : e[1] = key)[2]

\* ExistingMapOf that finds no stored chunk
ExistingMapOf_Nothing(rows, hashes) == {}

\* new Map(existingChunks.map(c => [c.content_hash, c.embedding])): for each
\* hash the embedding of the last selected row that carries it
ExistingMapOf(rows, hashes) ==
    {<<rows[k].content_hash, ReadEmbedding(rows[k].embedding)>> :
        k \in {n \in 1..Len(rows) :
                 /\ rows[n].content_hash \in hashes
                 /\ \A m \in (n + 1)..Len(rows) :
                       rows[m].content_hash # rows[n].content_hash}}

\* TextsToEmbed that sends every text of the batch
TextsToEmbed_All(batch, existingHashMap) == [k \in 1..Len(batch) |-> batch[k].text]

\* texts.forEach: the texts of the batch whose hash has no entry in the map
RECURSIVE TextsToEmbed(_, _)
TextsToEmbed(batch, existingHashMap) ==
    IF batch = <<>> THEN <<>>
    ELSE (IF MapHas(existingHashMap, hashContent(Head(batch).text))
          THEN <<>> ELSE <<Head(batch).text>>)
         \o TextsToEmbed(Tail(batch), existingHashMap)

\* the loop that builds the chunk records of a batch: the records, and
\* ok = FALSE when newEmbeddings[embeddingIdx] was undefined for some chunk
\* (embedding.join then raises a TypeError)
RECURSIVE BuildRecords(_, _, _, _, _)
BuildRecords(s, batch, existingHashMap, newEmbeddings, embeddingIdx) ==
    IF batch = <<>> THEN [ok |-> TRUE, rows |-> <<>>]
    ELSE LET chunk == Head(batch)
             hash  == hashContent(chunk.text)
             hit   == MapHas(existingHashMap, hash)
         IN IF ~hit /\ embeddingIdx + 1 > Len(newEmbeddings)
            THEN [ok |-> FALSE, rows |-> <<>>]
            ELSE LET embedding == IF hit THEN MapGet(existingHashMap, hash)
                                  ELSE newEmbeddings[embeddingIdx + 1]
                     rest == BuildRecords(s, Tail(batch), existingHashMap,
                                          newEmbeddings,
                                          IF hit THEN embeddingIdx
                                          ELSE embeddingIdx + 1)
                 IN [ok |-> rest.ok,
                     rows |-> <<[source_id |-> s, idx |-> chunk.index,
                                 page |-> chunk.page, text |-> chunk.text,
                                 content_hash |-> hash,
                                 embedding |-> FormatEmbedding(embedding)]>>
                              \o rest.rows]

\* the rest of a loop iteration once newEmbeddings is known
FinishBatch(j, newEmbeddings) ==
    LET built == BuildRecords(j.sourceId, BatchOf(j), j.existingHashMap,
                              newEmbeddings, 0)
    IN IF ~built.ok
       THEN Throw(j, <<"Cannot read properties of undefined (reading 'join')">>)
       ELSE LoopHead([j EXCEPT !.chunkRecords = @ \o built.rows,
                               !.i = @ + EMBEDDING_BATCH_SIZE,
                               !.existingHashMap = {},
                               !.textsToEmbed = <<>>])

\* select('content_hash, embedding').eq('source_id', ...).in('content_hash', hashes)
BatchLookup(w) ==
    LET j == job[w]
        batch == BatchOf(j)
        hashes == {hashContent(batch[k].text) : k \in 1..Len(batch)}
        existingHashMap == ExistingMapOf(RowsOf(chunks, j.sourceId), hashes)
        textsToEmbed == TextsToEmbed(batch, existingHashMap)
        jm == [j EXCEPT !.existingHashMap = existingHashMap,
                        !.textsToEmbed = textsToEmbed]
    IN /\ j.pc = "lookup"
       /\ SetJob(w, IF textsToEmbed # <<>>
                    THEN [jm EXCEPT !.pc = "embed"]
                    ELSE FinishBatch(jm, <<>>))
       /\ UNCHANGED <<status, error_message, chunks, audit_events, history,
                      ssrfVars, chunkVars, utilVars>>

\* SortByIndex that leaves the entries in the order of the response
SortByIndex_AsReceived(items) == items

\* data.data.sort((a, b) => a.index - b.index): insertion into sorted order
RECURSIVE SortByIndex(_)
SortByIndex(items) ==
    IF items = <<>> THEN <<>>
    ELSE LET sorted == SortByIndex(SubSeq(items, 1, Len(items) - 1))
             x == items[Len(items)]
             before == SelectSeq(sorted, LAMBDA y : y.index <= x.index)
             after  == SelectSeq(sorted, LAMBDA y : y.index > x.index)
         IN before \o <<x>> \o after

\* the bodies the embedding service may answer with for the input texts: an
\* entry per text in order, the same in reverse order, or the last or the
\* first entry lost
EmbeddingResponses(texts) ==
    LET full == [k \in 1..Len(texts) |->
                    [embedding |-> VectorOf(texts[k]), index |-> k - 1]]
    IN {full,
        [k \in 1..Len(full) |-> full[Len(full) + 1 - k]],
        SubSeq(full, 1, Len(full) - 1),
        SubSeq(full, 2, Len(full))}

\* OpenRouterEmbeddingProvider.embed on a success response
embed(data) ==
    LET sorted == SortByIndex(data)
    IN [k \in 1..Len(sorted) |-> sorted[k].embedding]

\* newEmbeddings = await embeddingProvider.embed(textsToEmbed)
BatchEmbed(w) ==
    LET j == job[w]
        jc == [j EXCEPT !.embedCalls = @ + 1]
    IN /\ j.pc = "embed"
       /\ \/ SetJob(w, Throw(jc, <<"OpenRouter embedding failed: ", "500">>))
          \/ \E data \in EmbeddingResponses(j.textsToEmbed) :
                SetJob(w, FinishBatch(jc, embed(data)))
       /\ UNCHANGED <<status, error_message, chunks, audit_events, history,
                      ssrfVars, chunkVars, utilVars>>

\* DeleteChunks without the filter on source_id
DeleteChunks_AllSources(w) ==
    LET j == job[w]
    IN /\ j.pc = "delete"
       /\ \/ chunks' = <<>>
          \/ chunks' = chunks
       /\ SetJob(w, [j EXCEPT !.pc = "insert"])
       /\ UNCHANGED <<status, error_message, audit_events, history,
                      ssrfVars, chunkVars, utilVars>>

\* supabase.from('chunks').delete().eq('source_id', sourceId): the result is
\* not looked at, so a failed delete goes unnoticed
DeleteChunks(w) ==
    LET j == job[w]
    IN /\ j.pc = "delete"
       /\ \/ chunks' = RowsNotOf(chunks, j.sourceId)
          \/ chunks' = chunks
       /\ SetJob(w, [j EXCEPT !.pc = "insert"])
       /\ UNCHANGED <<status, error_message, audit_events, history,
                      ssrfVars, chunkVars, utilVars>>

\* supabase.from('chunks').insert(chunkRecords), and the check of insertError
InsertChunks(w) ==
    LET j == job[w]
    IN /\ j.pc = "insert"
       /\ \/ /\ chunks' = chunks \o j.chunkRecords
             /\ SetJob(w, [j EXCEPT !.pc = "writeReady",
                                    !.inserted = j.chunkRecords])
          \/ /\ chunks' = chunks
             /\ SetJob(w, Throw(j, <<"Failed to insert chunks: ", "timeout">>))
       /\ UNCHANGED <<status, error_message, audit_events, history,
                      ssrfVars, chunkVars, utilVars>>

\* update({status: 'ready'})
WriteReady(w) ==
    LET j == job[w]
    IN /\ j.pc = "writeReady"
       /\ UpdateSource(j.sourceId, "ready", NoError)
       /\ SetJob(w, [Wrote(j, "ready") EXCEPT !.pc = "auditCompleted"])
       /\ UNCHANGED <<chunks, audit_events, history, ssrfVars, chunkVars, utilVars>>

\* what history keeps of a finished job
Finished(j, ok) ==
    [finished |-> TRUE, ok |-> ok, doc |-> j.content.doc, paged |-> j.paged,
     records |-> j.inserted]

\* locals that are dead once the job has ended
Ended(j, pc) ==
    [j EXCEPT !.pc = pc, !.chunkList = <<>>, !.existingHashMap = {},
              !.textsToEmbed = <<>>, !.i = 0, !.page = NoPage]

\* AuditCompleted reporting the rows the Source held before the run
AuditCompleted_CountsBefore(w) ==
    LET j == job[w]
    IN /\ j.pc = "auditCompleted"
       /\ audit_events' = Append(audit_events,
              [event_type |-> "pipeline_completed", source_id |-> j.sourceId,
               chunks_created |-> Len(j.rowsBefore), error |-> NoError])
       /\ SetJob(w, Ended(j, "completed"))
       /\ history' = [history EXCEPT !.last[j.sourceId] = Finished(j, TRUE)]
       /\ UNCHANGED <<status, error_message, chunks, ssrfVars, chunkVars, utilVars>>

\* audit_events.insert({event_type: 'pipeline_completed', ...}); the handler
\* returns and the job is completed
AuditCompleted(w) ==
    LET j == job[w]
    IN /\ j.pc = "auditCompleted"
       /\ audit_events' = Append(audit_events,
              [event_type |-> "pipeline_completed", source_id |-> j.sourceId,
               chunks_created |-> Len(j.chunkRecords), error |-> NoError])
       /\ SetJob(w, Ended(j, "completed"))
       /\ history' = [history EXCEPT !.last[j.sourceId] = Finished(j, TRUE)]
       /\ UNCHANGED <<status, error_message, chunks, ssrfVars, chunkVars, utilVars>>

\* CatchUpdate writing the status but not the error message
CatchUpdate_StatusOnly(w) ==
    LET j == job[w]
    IN /\ j.pc = "catch"
       /\ UpdateSource(j.sourceId, "failed", NoError)
       /\ SetJob(w, [Wrote(j, "failed") EXCEPT !.pc = "auditFailed"])
       /\ UNCHANGED <<chunks, audit_events, history, ssrfVars, chunkVars, utilVars>>

\* the handler's catch: update({status: 'failed', error_message: error.message})
CatchUpdate(w) ==
    LET j == job[w]
    IN /\ j.pc = "catch"
       /\ UpdateSource(j.sourceId, "failed", j.thrown)
       /\ SetJob(w, [Wrote(j, "failed") EXCEPT !.pc = "auditFailed"])
       /\ UNCHANGED <<chunks, audit_events, history, ssrfVars, chunkVars, utilVars>>

\* audit_events.insert({event_type: 'pipeline_failed', ...}); throw error
CatchAudit(w) ==
    LET j == job[w]
    IN /\ j.pc = "auditFailed"
       /\ audit_events' = Append(audit_events,
              [event_type |-> "pipeline_failed", source_id |-> j.sourceId,
               chunks_created |-> 0, error |-> j.thrown])
       /\ SetJob(w, [Ended(j, "failed") EXCEPT !.rethrown = j.thrown])
       /\ history' = [history EXCEPT !.last[j.sourceId] = Finished(j, FALSE)]
       /\ UNCHANGED <<status, error_message, chunks, ssrfVars, chunkVars, utilVars>>

(***************************************************************************)
(* Specification Spec: one worker slot takes ingest jobs one after another *)
(***************************************************************************)

SeqWorkers == {"w1"}

SeqSources == {"s1"}

Next ==
    \E w \in SeqWorkers :
        \/ \E s \in SeqSources : Pickup(w, s)
        \/ UrlValidate(w)
        \/ UrlFetch(w)
        \/ UrlRenderAfterError(w)
        \/ UrlRenderTooShort(w)
        \/ WriteInvalid(w)
        \/ FileStart(w)
        \/ FileDownload(w)
        \/ FileExtract(w)
        \/ WriteChunking(w)
        \/ WriteEmbedding(w)
        \/ BatchLookup(w)
        \/ BatchEmbed(w)
        \/ DeleteChunks(w)
        \/ InsertChunks(w)
        \/ WriteReady(w)
        \/ AuditCompleted(w)
        \/ CatchUpdate(w)
        \/ CatchAudit(w)

Spec == Init /\ [][Next]_vars

(***************************************************************************)
(* Properties of the ingestion pipeline                                    *)
(***************************************************************************)

StatusOrder == <<"extracting", "chunking", "embedding", "ready">>

IsPrefix(p, q) == Len(p) <= Len(q) /\ SubSeq(q, 1, Len(p)) = p

\* a sequence of status writes without its trailing run of "failed"
RECURSIVE WithoutTrailingFailed(_)
WithoutTrailingFailed(sw) ==
    IF sw # <<>> /\ sw[Len(sw)] = "failed"
    THEN WithoutTrailingFailed(SubSeq(sw, 1, Len(sw) - 1))
    ELSE sw

Started(j) == j.pc # "idle"

EndedJob(j) == j.pc \in {"completed", "failed"}

\* the audit events of a type that a job recorded for its Source
EventsOf(j, type) ==
    SelectSeq(SubSeq(audit_events, j.auditBefore + 1, Len(audit_events)),
              LAMBDA e : e.event_type = type /\ e.source_id = j.sourceId)

C3_NoPartialChunkSet ==
    \A w \in SeqWorkers :
        LET j == job[w]
            rows == RowsOf(chunks, j.sourceId)
        IN Started(j) =>
              \/ rows = j.rowsBefore
              \/ j.recordsBuilt /\ rows = j.chunkRecords

\* C4: after a successful re-ingestion of a Source that had chunk rows, its
\* rows are exactly the rows the new run built and no idx occurs twice.
C4_ReingestReplacesRows ==
    \A w \in SeqWorkers :
        LET j == job[w]
            rows == RowsOf(chunks, j.sourceId)
        IN (j.pc = "completed" /\ j.rowsBefore # <<>>) =>
              /\ rows = j.inserted
              /\ \A a, b \in 1..Len(rows) : rows[a].idx = rows[b].idx => a = b

IdxText(rows) == [k \in 1..Len(rows) |-> <<rows[k].idx, rows[k].text>>]

SameContentAsBefore(j) ==
    /\ j.prev.ok
    /\ j.content # NoPage
    /\ j.content.doc = j.prev.doc
    /\ j.paged = j.prev.paged

SecurityReasons(url) ==
    {<<"Security validation failed: ", validateUrlForSsrf(url).error>>,
     <<"URL blocked by security policy: ", validateUrlForSsrf(url).error>>}

\* C6: a URL job issues no fetch and no render unless the validator accepted
\* its URL earlier in the job; once the validator has rejected the URL the
\* job has written failed with a security reason and never extracting, has
\* issued no fetch, render or embedding call, and the Source's chunk rows
\* are as they were.
C6_NoRequestBeforeValidation ==
    \A w \in SeqWorkers :
        LET j == job[w]
        IN j.type = "ingest_url" =>
              /\ (j.netLog # <<>> \/ j.embedCalls > 0) =>
                    (j.accepted /\ validateUrlForSsrf(j.url).ok)
              /\ (j.pc # "start" /\ ~validateUrlForSsrf(j.url).ok) =>
                    /\ j.pc \in {"catch", "auditFailed", "failed"}
                    /\ j.netLog = <<>>
                    /\ j.embedCalls = 0
                    /\ \A k \in 1..Len(j.statusWrites) : j.statusWrites[k] = "failed"
                    /\ status[j.sourceId] = "failed"
                    /\ error_message[j.sourceId] \in SecurityReasons(j.url)
                    /\ RowsOf(chunks, j.sourceId) = j.rowsBefore

C6_Witness ==
    /\ job["w1"].pc = "failed"
    /\ job["w1"].type = "ingest_url"
    /\ ~validateUrlForSsrf(job["w1"].url).ok
    /\ job["w1"].rowsBefore # <<>>

\* C7: content served by a host the validator would reject (the target of a
\* redirect the fetch or the browser followed) is never chunked or stored.
C7_RedirectTargetValidated ==
    \A w \in SeqWorkers :
        LET j == job[w]
        IN (j.type = "ingest_url" /\ (j.chunkList # <<>> \/ j.inserted # <<>>)) =>
              validateUrlForSsrf(j.servedBy).ok

(***************************************************************************)
(* Retrieval control: the query router (shared/utils routeQuery).          *)
(* Numbers with a fractional part are held in hundredths.                  *)
(***************************************************************************)

UpperChars == <<"G", "H", "I", "T">>

LowerChars == <<"g", "h", "i", "t">>

\* s.toLowerCase()
toLowerCase(s) ==
    [i \in 1..Len(s) |->
        IF \E k \in 1..Len(UpperChars) : UpperChars[k] = s[i]
        THEN LowerChars[CHOOSE k \in 1..Len(UpperChars) : UpperChars[k] = s[i]]
        ELSE s[i]]

\* OnlyTrailers without the '!' and '.' of the character class
OnlyTrailers_SpacesOnly(s) == \A i \in 1..Len(s) : IsSpace(s[i])

\* s matches /^[\s!.]*$/
OnlyTrailers(s) == \A i \in 1..Len(s) : IsSpace(s[i]) \/ s[i] \in {"!", "."}

\* s matches /^(w1|w2|...)[\s!.]*$/ for the words of the set
MatchesWordThenTrailers(s, words) ==
    \E w \in words : StartsWith(s, w) /\ OnlyTrailers(SliceFrom(s, Len(w)))

\* /^(hi|hello|hey|greetings|good\s*(morning|afternoon|evening))[\s!.]*$/i
greetingPattern(s) ==
    \/ MatchesWordThenTrailers(s, {<<"h", "i">>,
                                   <<"h", "e", "l", "l", "o">>,
                                   <<"h", "e", "y">>,
                                   <<"g", "r", "e", "e", "t", "i", "n", "g", "s">>})
    \/ /\ StartsWith(s, <<"g", "o", "o", "d">>)
       /\ MatchesWordThenTrailers(TrimStart(SliceFrom(s, 4)),
              {<<"m", "o", "r", "n", "i", "n", "g">>,
               <<"a", "f", "t", "e", "r", "n", "o", "o", "n">>,
               <<"e", "v", "e", "n", "i", "n", "g">>})

\* /^(thanks|thank\s*you|thx|ty)[\s!.]*$/i
thanksPattern(s) ==
    \/ MatchesWordThenTrailers(s, {<<"t", "h", "a", "n", "k", "s">>,
                                   <<"t", "h", "x">>,
                                   <<"t", "y">>})
    \/ /\ StartsWith(s, <<"t", "h", "a", "n", "k">>)
       /\ MatchesWordThenTrailers(TrimStart(SliceFrom(s, 5)), {<<"y", "o", "u">>})

\* an optional property of a parsed JSON value: <<>> when absent, <<v>>
\* when present
Absent == <<>>

IsPresent(field) == field # Absent

\* the parsed JSON value of a router answer
RouterJson(intent, confidence, suggestedResponse) ==
    [intent |-> intent, confidence |-> confidence,
     suggestedResponse |-> suggestedResponse]

EmptyJson == RouterJson(Absent, Absent, Absent)

\* message contents the text-generation service can answer with: the kind
\* says what the text looks like, value is what JSON.parse makes of the
\* part between the first opening and the last closing bracket
Content(kind, value) == [kind |-> kind, value |-> value]

RouterContents ==
    {Content(k, EmptyJson) : k \in {"empty", "prose", "badjson", "scalar", "array"}}
    \cup {Content("object",
                   RouterJson(i, c, IF i = <<"no_retrieval">> THEN <<"Hi there">>
                                    ELSE Absent)) :
             i \in {Absent, <<"no_retrieval">>, <<"comparison">>, <<"casual_chat">>},
             c \in {Absent, <<0>>, <<90>>, <<170>>}}

\* response bodies: not JSON at all, the JSON value null, an object without
\* choices, or a completion with a message content
Body(kind, content) == [kind |-> kind, content |-> content]

RouterBodies ==
    {Body(k, Content("empty", EmptyJson)) : k \in {"notjson", "null", "nochoices"}}
    \cup {Body("completion", c) : c \in RouterContents}

NoBody == Body("none", Content("empty", EmptyJson))

\* safeParseJSON that hands on whatever value the content carries
safeParseJSON_NoFallback(content) == [ok |-> TRUE, value |-> content.value]

\* safeParseJSON(content, fallback): [ok |-> FALSE] stands for the fallback
safeParseJSON(content) ==
    IF content.kind \in {"object", "array", "nullarray"}
    THEN [ok |-> TRUE, value |-> content.value]
    ELSE [ok |-> FALSE, value |-> EmptyJson]

\* one pass of the loop of withRetry after fn() gave outcome ("error",
\* "timeout" or "returned"): what the loop does next and the delay it waits
RETRY_DELAY_BASE_MS == 500

\* withRetry that treats a timeout like any other error
withRetry_RetryTimeout(attempt, maxRetries, outcome) ==
    IF outcome = "returned" THEN [then |-> "return", delay |-> 0]
    ELSE IF attempt < maxRetries
    THEN [then |-> "retry", delay |-> RETRY_DELAY_BASE_MS * 2^attempt]
    ELSE [then |-> "throw", delay |-> 0]

withRetry(attempt, maxRetries, outcome) ==
    IF outcome = "returned" THEN [then |-> "return", delay |-> 0]
    ELSE IF outcome = "timeout" THEN [then |-> "throw", delay |-> 0]
    ELSE IF attempt < maxRetries
    THEN [then |-> "retry", delay |-> RETRY_DELAY_BASE_MS * 2^attempt]
    ELSE [then |-> "throw", delay |-> 0]

RouterResult(intent, confidence, reasoning, skipRetrieval, suggestedResponse) ==
    [intent |-> intent, confidence |-> confidence, reasoning |-> reasoning,
     skipRetrieval |-> skipRetrieval, suggestedResponse |-> suggestedResponse]

defaultResult ==
    RouterResult("simple_lookup", 50, "Using default (fallback)", FALSE, Absent)

\* the result built from a parsed answer
ParsedResult(parsed) ==
    RouterResult(IF IsPresent(parsed.intent) THEN parsed.intent[1]
                 ELSE "simple_lookup",
                 IF IsPresent(parsed.confidence) /\ parsed.confidence[1] # 0
                 THEN parsed.confidence[1] ELSE 50,
                 "",
                 parsed.intent = <<"no_retrieval">>,
                 parsed.suggestedResponse)

MaxQueryPieces == 3

QueryPieces ==
    {<<"h", "i">>, <<"G", "o", "o", "d">>,
     <<"m", "o", "r", "n", "i", "n", "g">>, <<"T", "h", "a", "n", "k">>,
     <<"y", "o", "u">>, <<" ">>, <<"!">>, <<"x">>}

Queries == {Flatten(ps) : ps \in UNION {[1..n -> QueryPieces] : n \in 0..MaxQueryPieces}}

Histories == {<<>>, <<[role |-> "user", content |-> "what is x"]>>}

RouterCall(query, conversationHistory) ==
    [pc |-> "called", query |-> query, history |-> conversationHistory,
     attempt |-> 0, requests |-> 0, log |-> <<>>, delays |-> <<>>,
     body |-> NoBody, result |-> defaultResult, raised |-> FALSE]

InitRouter ==
    /\ router \in {RouterCall(q, h) : q \in Queries, h \in Histories}
    /\ retrieval = NoCall
    /\ crag = NoCall
    /\ answerGrade = NoCall
    /\ backoff = NoCall
    /\ ExtraIdle
    /\ SsrfIdle
    /\ ChunkIdle
    /\ IngestIdle

RouterReturn(result) ==
    router' = [router EXCEPT !.pc = "returned", !.result = result]

\* routeQuery up to its first await: the two pattern shortcuts
routeQuery ==
    /\ router.pc = "called"
    /\ LET lowerQuery == Trim(toLowerCase(router.query))
       IN IF greetingPattern(lowerQuery)
          THEN RouterReturn(RouterResult("no_retrieval", 95,
                   "Greeting detected via pattern match", TRUE,
                   <<"Hello! How can I help you today?">>))
          ELSE IF thanksPattern(lowerQuery)
          THEN RouterReturn(RouterResult("no_retrieval", 95,
                   "Thanks detected via pattern match", TRUE,
                   <<"You're welcome!">>))
          ELSE router' = [router EXCEPT !.pc = "request"]
    /\ UNCHANGED <<ingestVars, ssrfVars, chunkVars,
                   retrieval, crag, answerGrade, backoff, extraVars>>

\* one fetchWithTimeout call under withRetry(fn, 1): the request raises,
\* times out, or is answered; a non-success answer returns the default
RouterRequest ==
    /\ router.pc = "request"
    /\ \E outcome \in {"error", "timeout", "ok", "notok"} :
          LET step == withRetry(router.attempt, 1,
                          IF outcome \in {"ok", "notok"} THEN "returned"
                          ELSE outcome)
              sent == [router EXCEPT !.requests = @ + 1,
                                     !.log = Append(@, outcome)]
          IN router' =
                IF step.then = "retry"
                THEN [sent EXCEPT !.attempt = @ + 1,
                                  !.delays = Append(@, step.delay)]
                ELSE IF step.then = "throw" \/ outcome = "notok"
                THEN [sent EXCEPT !.pc = "returned", !.result = defaultResult]
                ELSE [sent EXCEPT !.pc = "body"]
    /\ UNCHANGED <<ingestVars, ssrfVars, chunkVars,
                   retrieval, crag, answerGrade, backoff, extraVars>>

\* await response.json() and the rest of the try block
RouterBody ==
    /\ router.pc = "body"
    /\ \E body \in RouterBodies :
          LET parsed == safeParseJSON(body.content)
          IN router' =
                [router EXCEPT
                    !.pc = "returned",
                    !.body = body,
                    !.result = IF body.kind \in {"notjson", "null"} THEN defaultResult
                               ELSE IF parsed.ok THEN ParsedResult(parsed.value)
                               ELSE defaultResult]
    /\ UNCHANGED <<ingestVars, ssrfVars, chunkVars,
                   retrieval, crag, answerGrade, backoff, extraVars>>

NextRouter == routeQuery \/ RouterRequest \/ RouterBody

SpecRouter == InitRouter /\ [][NextRouter]_vars

RouterReturned == router.pc = "returned"

\* the phrases of the pattern shortcut as the specification lists them
GreetingPhrases ==
    {<<"h", "i">>, <<"h", "e", "l", "l", "o">>, <<"h", "e", "y">>,
     <<"g", "r", "e", "e", "t", "i", "n", "g", "s">>,
     <<"g", "o", "o", "d", " ", "m", "o", "r", "n", "i", "n", "g">>,
     <<"g", "o", "o", "d", " ", "a", "f", "t", "e", "r", "n", "o", "o", "n">>,
     <<"g", "o", "o", "d", " ", "e", "v", "e", "n", "i", "n", "g">>}

ThanksPhrases ==
    {<<"t", "h", "a", "n", "k", "s">>, <<"t", "h", "a", "n", "k", " ", "y", "o", "u">>,
     <<"t", "h", "x">>, <<"t", "y">>}

\* the query, lower-cased and trimmed, is one of the phrases followed only by
\* whitespace, '!' or '.'
IsPhraseQuery(query, phrases) ==
    LET q == Trim(toLowerCase(query))
    IN \E p \in phrases :
          /\ Len(p) <= Len(q)
          /\ SubSeq(q, 1, Len(p)) = p
          /\ \A i \in (Len(p) + 1)..Len(q) : q[i] \in {" ", "\n", "\t", "!", "."}

\* C12: a greeting or thanks query is answered with intent no_retrieval,
\* confidence 0.95, skipRetrieval true and a canned response, and no request
\* is ever issued for it, whatever the conversation history.
C12_GreetingShortcut ==
    IsPhraseQuery(router.query, GreetingPhrases \cup ThanksPhrases) =>
        /\ router.requests = 0
        /\ router.pc \in {"called", "returned"}
        /\ RouterReturned =>
              /\ router.result.intent = "no_retrieval"
              /\ router.result.confidence = 95
              /\ router.result.skipRetrieval
              /\ IsPresent(router.result.suggestedResponse)

C12_Witness ==
    /\ RouterReturned
    /\ router.query = <<"h", "i", "!", "!">>
    /\ router.history # <<>>
    /\ router.result.intent = "no_retrieval"

\* the slow path ended in a failure of the request or of reading its answer
RouterRequestFailed ==
    /\ router.log # <<>>
    /\ \/ router.log[Len(router.log)] \in {"error", "timeout", "notok"}
       \/ router.body.kind \in {"notjson", "null", "nochoices"}
       \/ /\ router.body.kind = "completion"
          /\ router.body.content.kind \in {"empty", "prose", "badjson", "scalar"}

\* C13: when the request failed for good (error after the retry, timeout,
\* non-success response, or an answer without a parsable JSON value) the
\* router returns the default simple_lookup / 0.5 / skipRetrieval false and
\* raises nothing.
C13_RouterDefaultOnFailure ==
    (RouterReturned /\ RouterRequestFailed) =>
        /\ router.result = defaultResult
        /\ router.result.intent = "simple_lookup"
        /\ router.result.confidence = 50
        /\ ~router.result.skipRetrieval
        /\ ~router.raised

C13_Witness ==
    /\ RouterReturned
    /\ router.log = <<"error", "ok">>
    /\ router.body.kind = "completion"
    /\ router.body.content.kind = "badjson"
    /\ router.result = defaultResult

\* C14: at most two requests per call; a second one only after a first
\* attempt that raised an error other than a timeout; a timeout is the last
\* attempt and gives the default result.
C14_RouterAtMostOneRetry ==
    /\ router.requests = Len(router.log)
    /\ router.requests <= 2
    /\ router.requests = 2 => router.log[1] = "error"
    /\ \A i \in 1..Len(router.log) :
          router.log[i] = "timeout" =>
              /\ i = Len(router.log)
              /\ RouterReturned
              /\ router.result = defaultResult

C14_Witness ==
    /\ RouterReturned
    /\ router.log = <<"error", "timeout">>
    /\ router.delays = <<500>>

(***************************************************************************)
(* Retrieval control: getAdaptiveRetrievalParams.  chunkCount is held in   *)
(* tenths (it can be a multiple of 0.5), the weights in hundredths.        *)
(***************************************************************************)

\* division that rounds down instead of up
CeilDiv_Floor(n, d) == n \div d

\* Math.ceil(n / d) for d > 0
CeilDiv(n, d) == -((-n) \div d)

RetrievalParams(chunkCount, vectorWeight, ftsWeight, expansionQueries) ==
    [chunkCount |-> chunkCount, vectorWeight |-> vectorWeight,
     ftsWeight |-> ftsWeight, expansionQueries |-> expansionQueries]

getAdaptiveRetrievalParams(intent, queryLength, baseChunkCount) ==
    LET base == 10 * baseChunkCount
        params ==
            IF intent = "no_retrieval" THEN RetrievalParams(0, 70, 30, 0)
            ELSE IF intent = "simple_lookup"
            THEN RetrievalParams(Min(60, base), 60, 40, 1)
            ELSE IF intent = "comparison"
            THEN RetrievalParams(Min(150, (base * 15) \div 10), 70, 30, 3)
            ELSE IF intent = "summarization"
            THEN RetrievalParams(Min(200, base * 2), 80, 20, 2)
            ELSE IF intent = "analytical"
            THEN RetrievalParams(Min(150, (base * 15) \div 10), 75, 25, 3)
            ELSE IF intent = "follow_up"
            THEN RetrievalParams(Min(80, base), 70, 30, 1)
            ELSE RetrievalParams(base, 70, 30, 2)
    IN IF queryLength > 100
       THEN [params EXCEPT !.chunkCount = 10 * CeilDiv(@ * 12, 100)]
       ELSE params

QueryIntents == {"no_retrieval", "simple_lookup", "comparison", "summarization",
                 "analytical", "follow_up"}

MaxBaseChunkCount == 21

QueryLengths == {0, 100, 101, 300}

RetrievalCall(intent, queryLength, baseChunkCount) ==
    [pc |-> "called", intent |-> intent, queryLength |-> queryLength,
     baseChunkCount |-> baseChunkCount,
     result |-> RetrievalParams(0, 0, 0, 0)]

InitRetrieval ==
    /\ retrieval \in {RetrievalCall(i, l, b) :
                         i \in QueryIntents \cup {"casual_chat"},
                         l \in QueryLengths, b \in (-1)..MaxBaseChunkCount}
    /\ router = NoCall
    /\ crag = NoCall
    /\ answerGrade = NoCall
    /\ backoff = NoCall
    /\ ExtraIdle
    /\ SsrfIdle
    /\ ChunkIdle
    /\ IngestIdle

CallRetrievalParams ==
    /\ retrieval.pc = "called"
    /\ retrieval' = [retrieval EXCEPT
           !.pc = "returned",
           !.result = getAdaptiveRetrievalParams(retrieval.intent,
                          retrieval.queryLength, retrieval.baseChunkCount)]
    /\ UNCHANGED <<ingestVars, ssrfVars, chunkVars,
                   router, crag, answerGrade, backoff, extraVars>>

NextRetrieval == CallRetrievalParams

SpecRetrieval == InitRetrieval /\ [][NextRetrieval]_vars

\* the table of the specification: twice the chunk count before the length
\* adjustment, and the weights and expansion queries, per intent
TableOf(intent, b) ==
    CASE intent = "no_retrieval"  -> <<0, 0, 0, 0>>
      [] intent = "simple_lookup" -> <<IF b < 6 THEN 2 * b ELSE 12, 60, 40, 1>>
      [] intent = "comparison"    -> <<IF 3 * b < 30 THEN 3 * b ELSE 30, 70, 30, 3>>
      [] intent = "summarization" -> <<IF 2 * b < 20 THEN 4 * b ELSE 40, 80, 20, 2>>
      [] intent = "analytical"    -> <<IF 3 * b < 30 THEN 3 * b ELSE 30, 75, 25, 3>>
      [] intent = "follow_up"     -> <<IF b < 8 THEN 2 * b ELSE 16, 70, 30, 1>>

\* n is the least integer with n >= 1.2 x (twice / 2)
IsCeilOfScaled(n, twice) == 10 * n >= 6 * twice /\ 10 * (n - 1) < 6 * twice

\* C15: for each of the six intents and every integer base the result is the
\* table's row, and for a query longer than 100 characters the chunk count is
\* the ceiling of 1.2 times the row's value (unchanged otherwise).
C15_AdaptiveParamsTable ==
    (retrieval.pc = "returned" /\ retrieval.intent \in QueryIntents) =>
        LET row == TableOf(retrieval.intent, retrieval.baseChunkCount)
            r   == retrieval.result
        IN /\ r.expansionQueries = row[4]
           /\ retrieval.intent # "no_retrieval" =>
                 r.vectorWeight = row[2] /\ r.ftsWeight = row[3]
           /\ IF retrieval.queryLength > 100
              THEN /\ r.chunkCount % 10 = 0
                   /\ IsCeilOfScaled(r.chunkCount \div 10, row[1])
              ELSE r.chunkCount * 2 = row[1] * 10

C15_Witness ==
    /\ retrieval.pc = "returned"
    /\ retrieval.intent = "comparison"
    /\ retrieval.baseChunkCount = 3
    /\ retrieval.queryLength = 101
    /\ retrieval.result = RetrievalParams(60, 70, 30, 3)

(***************************************************************************)
(* Retrieval control: gradeChunksRelevance (corrective RAG).  A chunk is   *)
(* its position in the input list; scores are held in hundredths; a score  *)
(* the service left out is Absent.                                         *)
(***************************************************************************)

\* chunks.slice(0, 10)
GRADE_LIMIT == 10

GradedChunk(chunk, relevance, score) ==
    [chunk |-> chunk, relevance |-> relevance, score |-> score]

Grade(index, relevance, score) ==
    [index |-> index, relevance |-> relevance, score |-> score]

\* [0 .. n-1]
ChunkList(n) == [i \in 1..n |-> i - 1]

RECURSIVE SumScores(_)
SumScores(gradedChunks) ==
    IF gradedChunks = <<>> THEN 0
    ELSE gradedChunks[1].score[1] + SumScores(Tail(gradedChunks))

\* gradedChunks.reduce((sum, gc) => sum + gc.score, 0) / gradedChunks.length:
\* the quotient num / den, or NaN when a score is undefined
Mean(gradedChunks) ==
    IF \E i \in 1..Len(gradedChunks) : gradedChunks[i].score = Absent
    THEN [nan |-> TRUE, num |-> 0, den |-> 1]
    ELSE [nan |-> FALSE, num |-> SumScores(gradedChunks), den |-> Len(gradedChunks)]

Exactly(score) == [nan |-> FALSE, num |-> score, den |-> 1]

\* mean < bound; a comparison with NaN is false
MeanBelow(mean, bound) == ~mean.nan /\ mean.num < bound * mean.den

CragResult(gradedChunks, relevantChunks, decision, avgRelevanceScore) ==
    [gradedChunks |-> gradedChunks, relevantChunks |-> relevantChunks,
     decision |-> decision, avgRelevanceScore |-> avgRelevanceScore]

\* fallbackResult over the chunks sent for grading only
fallbackResult_Limited(useChunks) ==
    CragResult([i \in 1..Min(Len(useChunks), GRADE_LIMIT) |->
                   GradedChunk(useChunks[i], "relevant", <<70>>)],
               Slice(useChunks, 0, GRADE_LIMIT), "sufficient", Exactly(70))

fallbackResult(useChunks) ==
    CragResult([i \in 1..Len(useChunks) |->
                   GradedChunk(useChunks[i], "relevant", <<70>>)],
               useChunks, "sufficient", Exactly(70))

\* grades.find with the default of the fallback result: relevant, 0.7
GradeFor_Relevant(grades, i) ==
    IF \E k \in 1..Len(grades) : grades[k].index = i
    THEN grades[CHOOSE k \in 1..Len(grades) :
                   /\ grades[k].index = i
                   /\ \A j \in 1..(k - 1) : grades[j].index # i]
    ELSE Grade(i, "relevant", <<70>>)

\* grades.find(g => g.index === i) || {partially_relevant, 0.5}
GradeFor(grades, i) ==
    IF \E k \in 1..Len(grades) : grades[k].index = i
    THEN grades[CHOOSE k \in 1..Len(grades) :
                   /\ grades[k].index = i
                   /\ \A j \in 1..(k - 1) : grades[j].index # i]
    ELSE Grade(i, "partially_relevant", <<50>>)

\* gc.score >= 0.4 with the threshold moved to 0.5
IsRelevantScore_Half(score) == score # Absent /\ score[1] >= 50

\* gc.score >= 0.4; false for an undefined score
IsRelevantScore(score) == score # Absent /\ score[1] >= 40

\* the decision of gradeChunksRelevance
Decide(relevantChunks, avgRelevanceScore) ==
    IF Len(relevantChunks) = 0 THEN "no_relevant_sources"
    ELSE IF Len(relevantChunks) < 3 /\ MeanBelow(avgRelevanceScore, 50)
    THEN "needs_expansion"
    ELSE "sufficient"

\* the result built from a non-empty list of grades
GradedResult(chunksToGrade, grades) ==
    LET gradedChunks ==
            [i \in 1..Len(chunksToGrade) |->
                LET grade == GradeFor(grades, i - 1)
                IN GradedChunk(chunksToGrade[i], grade.relevance, grade.score)]
        relevant == SelectSeq(gradedChunks, LAMBDA gc : IsRelevantScore(gc.score))
        relevantChunks == [k \in 1..Len(relevant) |-> relevant[k].chunk]
        avgRelevanceScore == Mean(gradedChunks)
    IN CragResult(gradedChunks, relevantChunks,
                  Decide(relevantChunks, avgRelevanceScore), avgRelevanceScore)

MaxChunks == 11

MaxGraded == 3

\* what the service can say about one chunk: nothing, or a grade
GradeOptions ==
    {<<>>} \cup {<<[relevance |-> r, score |-> sc]>> :
                    r \in {"relevant"}, sc \in {Absent, <<10>>, <<20>>, <<40>>,
                                                <<70>>, <<90>>, <<150>>}}

RECURSIVE GradesOf(_, _)
GradesOf(choice, i) ==
    IF i >= MaxGraded THEN <<>>
    ELSE (IF choice[i] = <<>> THEN <<>>
          ELSE <<Grade(i, choice[i][1].relevance, choice[i][1].score)>>)
         \o GradesOf(choice, i + 1)

Reverse(s) == [i \in 1..Len(s) |-> s[Len(s) - i + 1]]

\* the grade lists the service can answer with, in index order or reversed
GradeLists ==
    LET ordered == {GradesOf(c, 0) : c \in [0..(MaxGraded - 1) -> GradeOptions]}
    IN ordered \cup {Reverse(g) : g \in ordered}

CragContents ==
    {Content(k, <<>>) : k \in {"empty", "prose", "badjson", "object", "nullarray"}}
    \cup {Content("array", g) : g \in GradeLists}

CragBodies ==
    {Body(k, Content("empty", <<>>)) : k \in {"notjson", "null", "nochoices"}}
    \cup {Body("completion", c) : c \in CragContents}

CragCall(n) ==
    [pc |-> "called", chunks |-> ChunkList(n), requests |-> 0, log |-> <<>>,
     sent |-> <<>>, body |-> Body("none", Content("empty", <<>>)),
     result |-> fallbackResult(<<>>), raised |-> FALSE]

InitCrag ==
    /\ crag \in {CragCall(n) : n \in 0..MaxChunks}
    /\ router = NoCall
    /\ retrieval = NoCall
    /\ answerGrade = NoCall
    /\ backoff = NoCall
    /\ ExtraIdle
    /\ SsrfIdle
    /\ ChunkIdle
    /\ IngestIdle

\* gradeChunksRelevance up to its first await
gradeChunksRelevance ==
    /\ crag.pc = "called"
    /\ IF Len(crag.chunks) = 0
       THEN crag' = [crag EXCEPT
                !.pc = "returned",
                !.result = CragResult(<<>>, <<>>, "no_relevant_sources", Exactly(0))]
       ELSE crag' = [crag EXCEPT !.pc = "request"]
    /\ UNCHANGED <<ingestVars, ssrfVars, chunkVars,
                   router, retrieval, answerGrade, backoff, extraVars>>

\* the fetchWithTimeout call: it raises, times out or is answered
CragRequest ==
    /\ crag.pc = "request"
    /\ \E outcome \in {"error", "timeout", "ok", "notok"} :
          LET sent == [crag EXCEPT
                          !.requests = @ + 1,
                          !.log = Append(@, outcome),
                          !.sent = Slice(crag.chunks, 0, GRADE_LIMIT)]
          IN crag' = IF outcome = "ok" THEN [sent EXCEPT !.pc = "body"]
                     ELSE [sent EXCEPT !.pc = "returned",
                                       !.result = fallbackResult(crag.chunks)]
    /\ UNCHANGED <<ingestVars, ssrfVars, chunkVars,
                   router, retrieval, answerGrade, backoff, extraVars>>

\* await response.json() and the rest of the try block: a body that is not
\* JSON, null data, or an array with a null entry raise inside the try
CragBody ==
    /\ crag.pc = "body"
    /\ \E body \in CragBodies :
          LET parsed == safeParseJSON(body.content)
              graded == /\ body.kind = "completion"
                        /\ parsed.ok
                        /\ body.content.kind = "array"
                        /\ Len(parsed.value) > 0
          IN crag' = [crag EXCEPT
                         !.pc = "returned",
                         !.body = body,
                         !.result = IF graded
                                    THEN GradedResult(crag.sent, parsed.value)
                                    ELSE fallbackResult(crag.chunks)]
    /\ UNCHANGED <<ingestVars, ssrfVars, chunkVars,
                   router, retrieval, answerGrade, backoff, extraVars>>

NextCrag == gradeChunksRelevance \/ CragRequest \/ CragBody

SpecCrag == InitCrag /\ [][NextCrag]_vars

CragReturned == crag.pc = "returned"

\* the service answered with a non-empty list of grades
GradingSucceeded ==
    /\ CragReturned
    /\ crag.body.kind = "completion"
    /\ crag.body.content.kind = "array"
    /\ Len(crag.body.content.value) > 0

\* C16: after a successful grading the relevant set is the graded chunks
\* with score >= 0.4, the mean is taken over all graded chunks, and the
\* decision is no_relevant_sources iff the relevant set is empty,
\* needs_expansion iff it has one or two chunks and the mean is below 0.5,
\* sufficient otherwise.  (A graded chunk without a score is not relevant
\* and leaves the mean undefined, which is not below 0.5.)
C16_CragDecision ==
    GradingSucceeded =>
        LET r        == crag.result
            g        == r.gradedChunks
            scored   == \A i \in 1..Len(g) : g[i].score # Absent
            relevant == {i \in 1..Len(g) : g[i].score # Absent /\ g[i].score[1] >= 40}
            below    == scored /\ 2 * SumScores(g) < 100 * Len(g)
        IN /\ Len(r.relevantChunks) = Cardinality(relevant)
           /\ \A k \in 1..Len(r.relevantChunks) :
                 \E i \in relevant : g[i].chunk = r.relevantChunks[k]
           /\ \A i \in relevant :
                 \E k \in 1..Len(r.relevantChunks) : r.relevantChunks[k] = g[i].chunk
           /\ scored => /\ ~r.avgRelevanceScore.nan
                        /\ r.avgRelevanceScore.num * Len(g)
                              = SumScores(g) * r.avgRelevanceScore.den
           /\ (r.decision = "no_relevant_sources") = (relevant = {})
           /\ (r.decision = "needs_expansion")
                 = (relevant # {} /\ Cardinality(relevant) < 3 /\ below)
           /\ (r.decision = "sufficient")
                 = (relevant # {} /\ ~(Cardinality(relevant) < 3 /\ below))

\* scores 0.9, 0.2, 0.1 for three chunks: needs_expansion
C16_Witness ==
    /\ GradingSucceeded
    /\ Len(crag.chunks) = 3
    /\ [i \in 1..3 |-> crag.result.gradedChunks[i].score] = <<<<90>>, <<20>>, <<10>>>>
    /\ crag.result.relevantChunks = <<0>>
    /\ crag.result.decision = "needs_expansion"

\* the request failed or its answer held no usable list of grades
CragRequestFailed ==
    /\ CragReturned
    /\ crag.log # <<>>
    /\ \/ crag.log[Len(crag.log)] \in {"error", "timeout", "notok"}
       \/ crag.body.kind \in {"notjson", "null", "nochoices"}
       \/ /\ crag.body.kind = "completion"
          /\ \/ crag.body.content.kind \in {"empty", "prose", "badjson"}
             \/ crag.body.content.kind = "array" /\ crag.body.content.value = <<>>

\* C17: with zero chunks the result is no_relevant_sources with empty lists
\* and no request is issued; with n > 0 chunks a failed request yields all n
\* input chunks as the relevant set, each labelled relevant with score 0.7.
C17_CragFallback ==
    /\ Len(crag.chunks) = 0 =>
          /\ crag.requests = 0
          /\ crag.pc \in {"called", "returned"}
          /\ CragReturned =>
                /\ crag.result.decision = "no_relevant_sources"
                /\ crag.result.gradedChunks = <<>>
                /\ crag.result.relevantChunks = <<>>
    /\ (Len(crag.chunks) > 0 /\ CragRequestFailed) =>
          /\ crag.requests = 1
          /\ crag.result.relevantChunks = crag.chunks
          /\ Len(crag.result.gradedChunks) = Len(crag.chunks)
          /\ \A i \in 1..Len(crag.chunks) :
                crag.result.gradedChunks[i]
                    = GradedChunk(crag.chunks[i], "relevant", <<70>>)
          /\ ~crag.raised

C17_Witness ==
    /\ CragReturned
    /\ Len(crag.chunks) = 11
    /\ crag.body.kind = "completion"
    /\ crag.body.content.kind = "badjson"
    /\ Len(crag.result.relevantChunks) = 11

(***************************************************************************)
(* Retrieval control: gradeAnswer (self-reflective grading).  Scores are   *)
(* held in hundredths; a property the service left out is Absent.          *)
(***************************************************************************)

AnswerGrade(isGrounded, answersQuestion, hasHallucinations, completeness, overallScore, issues, shouldRetry) ==
    [isGrounded |-> isGrounded, answersQuestion |-> answersQuestion,
     hasHallucinations |-> hasHallucinations, completeness |-> completeness,
     overallScore |-> overallScore, issues |-> issues,
     shouldRetry |-> shouldRetry]

defaultGrade == AnswerGrade(TRUE, TRUE, FALSE, 80, 80, <<>>, FALSE)

\* the parsed JSON value of a grader answer
GradeJson(isGrounded, answersQuestion, hasHallucinations, completeness, overallScore) ==
    [isGrounded |-> isGrounded, answersQuestion |-> answersQuestion,
     hasHallucinations |-> hasHallucinations, completeness |-> completeness,
     overallScore |-> overallScore, issues |-> Absent]

EmptyGradeJson == GradeJson(Absent, Absent, Absent, Absent, Absent)

\* JavaScript truthiness of an optional boolean
Truthy(field) == field # Absent /\ field[1]

\* field ?? fallback
Coalesce(field, fallback) == IF field # Absent THEN field[1] ELSE fallback

\* field || fallback, for an optional number
OrElse(field, fallback) ==
    IF field # Absent /\ field[1] # 0 THEN field[1] ELSE fallback

\* answer.length < 50 with the limit at 30
IsShortAnswer_Under30(answerLength) == answerLength < 30

\* answer.length < 50
IsShortAnswer(answerLength) == answerLength < 50

\* the grade built from a parsed answer
ParsedGrade(grade) ==
    LET overallScore ==
            Coalesce(grade.overallScore,
                (IF Truthy(grade.isGrounded) THEN 30 ELSE 0)
                + (IF Truthy(grade.answersQuestion) THEN 30 ELSE 0)
                + (IF ~Truthy(grade.hasHallucinations) THEN 20 ELSE 0)
                + (OrElse(grade.completeness, 50) * 2) \div 10)
        shouldRetry ==
            \/ ~Truthy(grade.isGrounded)
            \/ ~Truthy(grade.answersQuestion)
            \/ Truthy(grade.hasHallucinations)
            \/ OrElse(grade.completeness, 80) < 40
    IN AnswerGrade(Coalesce(grade.isGrounded, TRUE),
                   Coalesce(grade.answersQuestion, TRUE),
                   Coalesce(grade.hasHallucinations, FALSE),
                   Coalesce(grade.completeness, 80),
                   overallScore,
                   Coalesce(grade.issues, <<>>),
                   shouldRetry)

OptionalBooleans == {Absent, <<TRUE>>, <<FALSE>>}

GradeContents ==
    {Content(k, EmptyGradeJson) : k \in {"empty", "prose", "badjson", "array"}}
    \cup {Content("object", GradeJson(g, a, h, c, o)) :
             g \in OptionalBooleans, a \in OptionalBooleans,
             h \in OptionalBooleans,
             c \in {Absent, <<0>>, <<30>>, <<40>>, <<90>>, <<150>>},
             o \in {Absent, <<90>>, <<150>>}}

GradeBodies ==
    {Body(k, Content("empty", EmptyGradeJson)) : k \in {"notjson", "null", "nochoices"}}
    \cup {Body("completion", c) : c \in GradeContents}

AnswerLengths == {0, 30, 49, 50, 51, 1200}

AnswerCall(answerLength) ==
    [pc |-> "called", answerLength |-> answerLength, requests |-> 0,
     log |-> <<>>, body |-> Body("none", Content("empty", EmptyGradeJson)),
     result |-> defaultGrade, raised |-> FALSE]

InitAnswer ==
    /\ answerGrade \in {AnswerCall(l) : l \in AnswerLengths}
    /\ router = NoCall
    /\ retrieval = NoCall
    /\ crag = NoCall
    /\ backoff = NoCall
    /\ ExtraIdle
    /\ SsrfIdle
    /\ ChunkIdle
    /\ IngestIdle

\* gradeAnswer up to its first await
gradeAnswer ==
    /\ answerGrade.pc = "called"
    /\ IF IsShortAnswer(answerGrade.answerLength)
       THEN answerGrade' = [answerGrade EXCEPT !.pc = "returned",
                                               !.result = defaultGrade]
       ELSE answerGrade' = [answerGrade EXCEPT !.pc = "request"]
    /\ UNCHANGED <<ingestVars, ssrfVars, chunkVars,
                   router, retrieval, crag, backoff, extraVars>>

\* the fetchWithTimeout call: it raises, times out or is answered
AnswerRequest ==
    /\ answerGrade.pc = "request"
    /\ \E outcome \in {"error", "timeout", "ok", "notok"} :
          LET sent == [answerGrade EXCEPT !.requests = @ + 1,
                                          !.log = Append(@, outcome)]
          IN answerGrade' =
                IF outcome = "ok" THEN [sent EXCEPT !.pc = "body"]
                ELSE [sent EXCEPT !.pc = "returned", !.result = defaultGrade]
    /\ UNCHANGED <<ingestVars, ssrfVars, chunkVars,
                   router, retrieval, crag, backoff, extraVars>>

\* await response.json() and the rest of the try block
AnswerBody ==
    /\ answerGrade.pc = "body"
    /\ \E body \in GradeBodies :
          LET parsed == safeParseJSON(body.content)
          IN answerGrade' =
                [answerGrade EXCEPT
                    !.pc = "returned",
                    !.body = body,
                    !.result = IF body.kind = "completion" /\ parsed.ok
                               THEN ParsedGrade(parsed.value)
                               ELSE defaultGrade]
    /\ UNCHANGED <<ingestVars, ssrfVars, chunkVars,
                   router, retrieval, crag, backoff, extraVars>>

NextAnswer == gradeAnswer \/ AnswerRequest \/ AnswerBody

SpecAnswer == InitAnswer /\ [][NextAnswer]_vars

AnswerReturned == answerGrade.pc = "returned"

\* C18: an answer shorter than 50 characters gets the optimistic default
\* grade and no request is issued to the grading service.
C18_ShortAnswerDefault ==
    answerGrade.answerLength < 50 =>
        /\ answerGrade.requests = 0
        /\ answerGrade.pc \in {"called", "returned"}
        /\ AnswerReturned =>
              answerGrade.result
                  = [isGrounded |-> TRUE, answersQuestion |-> TRUE,
                     hasHallucinations |-> FALSE, completeness |-> 80,
                     overallScore |-> 80, issues |-> <<>>, shouldRetry |-> FALSE]

C18_Witness ==
    /\ AnswerReturned
    /\ answerGrade.answerLength = 30
    /\ answerGrade.result.overallScore = 80

\* C19: in every returned grade shouldRetry is true exactly when the grade
\* is not grounded, or does not answer the question, or has hallucinations,
\* or has completeness below 0.4.
C19_ShouldRetryMatchesGrade ==
    AnswerReturned =>
        LET g == answerGrade.result
        IN g.shouldRetry = (\/ ~g.isGrounded
                            \/ ~g.answersQuestion
                            \/ g.hasHallucinations
                            \/ g.completeness < 40)

(***************************************************************************)
(* The retry combinator retryWithBackoff(fn, maxRetries, baseDelayMs)      *)
(***************************************************************************)

\* a delay that grows linearly
BackoffDelay_Linear(baseDelayMs, attempt) == baseDelayMs * (attempt + 1)

\* baseDelayMs * Math.pow(2, attempt)
BackoffDelay(baseDelayMs, attempt) == baseDelayMs * 2^attempt

MaxRetries == 3

BaseDelays == {0, 1, 500, 1000}

\* what a call of fn can do: return a value or raise an error
FnValues == {"v1", "v2"}

\* the error raised by the call of fn in the given attempt
ErrorOf(attempt) == [error |-> attempt]

NoOutcome == [error |-> -1]

BackoffCall(maxRetries, baseDelayMs) ==
    [pc |-> "loop", maxRetries |-> maxRetries, baseDelayMs |-> baseDelayMs,
     attempt |-> 0, log |-> <<>>, delays |-> <<>>,
     lastError |-> NoOutcome, value |-> "", raised |-> NoOutcome]

InitBackoff ==
    /\ backoff \in {BackoffCall(n, d) : n \in 0..MaxRetries, d \in BaseDelays}
    /\ router = NoCall
    /\ retrieval = NoCall
    /\ crag = NoCall
    /\ answerGrade = NoCall
    /\ ExtraIdle
    /\ SsrfIdle
    /\ ChunkIdle
    /\ IngestIdle

\* one pass of the for loop: fn() returns, or raises and the loop sleeps
\* before the next pass; after the last pass the loop ends and lastError is
\* thrown
retryWithBackoff ==
    /\ backoff.pc = "loop"
    /\ backoff.attempt <= backoff.maxRetries
    /\ \/ \E v \in FnValues :
             backoff' = [backoff EXCEPT !.pc = "returned",
                                        !.log = Append(@, "returned"),
                                        !.value = v]
       \/ LET failed == [backoff EXCEPT !.log = Append(@, "raised"),
                                        !.lastError = ErrorOf(backoff.attempt),
                                        !.attempt = @ + 1]
          IN backoff' =
                IF backoff.attempt < backoff.maxRetries
                THEN [failed EXCEPT
                         !.delays = Append(@, BackoffDelay(backoff.baseDelayMs,
                                                           backoff.attempt))]
                ELSE [failed EXCEPT !.pc = "raised",
                                    !.raised = ErrorOf(backoff.attempt)]
    /\ UNCHANGED <<ingestVars, ssrfVars, chunkVars,
                   router, retrieval, crag, answerGrade, extraVars>>

NextBackoff == retryWithBackoff

SpecBackoff == InitBackoff /\ [][NextBackoff]_vars

\* C20: the operation is called at most maxRetries + 1 times; the first
\* success ends the loop and its value is returned; the wait after the
\* failure of attempt k < maxRetries is baseDelayMs x 2^k; nothing is waited
\* after the last failed attempt, whose error is then raised.
C20_RetryWithBackoff ==
    LET n     == backoff.maxRetries
        calls == Len(backoff.log)
        fails == Cardinality({i \in 1..calls : backoff.log[i] = "raised"})
    IN /\ calls <= n + 1
       /\ \A i \in 1..calls : backoff.log[i] = "returned" => i = calls
       /\ Len(backoff.delays) = (IF fails <= n THEN fails ELSE n)
       /\ \A k \in 1..Len(backoff.delays) :
             backoff.delays[k] = backoff.baseDelayMs * 2^(k - 1)
       /\ (backoff.pc = "returned") = (calls > 0 /\ backoff.log[calls] = "returned")
       /\ backoff.pc = "returned" =>
             backoff.value \in FnValues /\ backoff.raised = NoOutcome
       /\ (backoff.pc = "raised") = (fails = n + 1)
       /\ backoff.pc = "raised" => backoff.raised = [error |-> n]
       /\ backoff.pc = "loop" => backoff.raised = NoOutcome

\* base delay 1000 and 3 retries: delays 1000, 2000, 4000, then the error
C20_Witness ==
    /\ backoff.pc = "raised"
    /\ backoff.maxRetries = 3
    /\ backoff.baseDelayMs = 1000
    /\ backoff.delays = <<1000, 2000, 4000>>
    /\ Len(backoff.log) = 4

(***************************************************************************)
(* Properties of the scores the retrieval-control functions return         *)
(***************************************************************************)

\* a score held in hundredths lies in [0, 1]
InUnitRange(score) == 0 <= score /\ score <= 100

\* C21: every numeric score a retrieval-control function returns lies in
\* [0, 1]: the router's confidence, each graded chunk's score and the average
\* score, and the answer grade's completeness and overallScore.
C21_ScoresInUnitRange ==
    /\ router.pc = "returned" => InUnitRange(router.result.confidence)
    /\ crag.pc = "returned" =>
          /\ \A i \in 1..Len(crag.result.gradedChunks) :
                /\ crag.result.gradedChunks[i].score # Absent
                /\ InUnitRange(crag.result.gradedChunks[i].score[1])
          /\ ~crag.result.avgRelevanceScore.nan
          /\ 0 <= crag.result.avgRelevanceScore.num
          /\ crag.result.avgRelevanceScore.num
                <= 100 * crag.result.avgRelevanceScore.den
    /\ answerGrade.pc = "returned" =>
          /\ InUnitRange(answerGrade.result.completeness)
          /\ InUnitRange(answerGrade.result.overallScore)

(***************************************************************************)
(* rewriteQueryWithContext (shared/utils)                                  *)
(***************************************************************************)

\* the characters of the class \w
WordChars ==
    {"a", "b", "c", "d", "e", "f", "g", "h", "i", "j", "k", "l", "m", "n",
     "o", "p", "q", "r", "s", "t", "u", "v", "w", "x", "y", "z",
     "A", "B", "C", "D", "E", "F", "G", "H", "I", "J", "K", "L", "M", "N",
     "O", "P", "Q", "R", "S", "T", "U", "V", "W", "X", "Y", "Z",
     "0", "1", "2", "3", "4", "5", "6", "7", "8", "9", "_"}

\* the alternatives of the pronoun pattern
ReferenceWords ==
    {<<"i", "t">>, <<"t", "h", "i", "s">>, <<"t", "h", "a", "t">>,
     <<"t", "h", "e", "y">>, <<"t", "h", "e", "m">>,
     <<"t", "h", "e", "s", "e">>, <<"t", "h", "o", "s", "e">>,
     <<"t", "h", "e", " ", "s", "a", "m", "e">>,
     <<"a", "n", "o", "t", "h", "e", "r">>, <<"o", "t", "h", "e", "r">>,
     <<"m", "o", "r", "e">>, <<"a", "l", "s", "o">>}

\* the word w stands in s at position i between two word boundaries
WordAt(s, w, i) ==
    /\ i + Len(w) - 1 <= Len(s)
    /\ SubSeq(s, i, i + Len(w) - 1) = w
    /\ i = 1 \/ s[i - 1] \notin WordChars
    /\ i + Len(w) > Len(s) \/ s[i + Len(w)] \notin WordChars

\* /\b(it|this|that|they|them|these|those|the same|another|other|more|also)\b/i
needsRewrite(query) ==
    \E w \in ReferenceWords : \E i \in 1..Len(query) :
        WordAt(toLowerCase(query), w, i)

RewrittenQuery(original, rewritten, extractedEntities, needsContext) ==
    [original |-> original, rewritten |-> rewritten,
     extractedEntities |-> extractedEntities, needsContext |-> needsContext]

\* UnchangedQuery that claims the query refers to the conversation
UnchangedQuery_NeedsContext(query) == RewrittenQuery(query, query, <<>>, TRUE)

\* the value of both early returns and of defaultResult
UnchangedQuery(query) == RewrittenQuery(query, query, <<>>, FALSE)

\* the parsed JSON value of a rewriter answer
RewriteJson(rewritten, extractedEntities, needsContext) ==
    [rewritten |-> rewritten, extractedEntities |-> extractedEntities,
     needsContext |-> needsContext]

EmptyRewriteJson == RewriteJson(Absent, Absent, Absent)

\* a self-contained query the service can answer with
ResolvedQuery == <<"t", "h", "e", " ", "p", "l", "a", "n", " ", "x">>

RewriteContents(query) ==
    {Content(k, EmptyRewriteJson) :
        k \in {"empty", "prose", "badjson", "scalar", "array"}}
    \cup {Content("object",
                   RewriteJson(r, IF r = <<ResolvedQuery>> THEN <<<<"plan">>>>
                                  ELSE Absent, n)) :
             r \in {Absent, <<<<>>>>, <<query>>, <<ResolvedQuery>>},
             n \in {Absent, <<TRUE>>, <<FALSE>>}}

RewriteBodies(query) ==
    {Body(k, Content("empty", EmptyRewriteJson)) :
        k \in {"notjson", "null", "nochoices"}}
    \cup {Body("completion", c) : c \in RewriteContents(query)}

\* the result built from a parsed answer
ParsedRewrite(query, parsed) ==
    RewrittenQuery(query,
                   IF IsPresent(parsed.rewritten) /\ parsed.rewritten[1] # <<>>
                   THEN parsed.rewritten[1] ELSE query,
                   IF IsPresent(parsed.extractedEntities)
                   THEN parsed.extractedEntities[1] ELSE <<>>,
                   Truthy(parsed.needsContext))

RewritePieces ==
    {<<"I", "t">>, <<"o", "t", "h", "e", "r">>, <<"x">>, <<" ">>}

RewriteQueries ==
    {Flatten(ps) : ps \in UNION {[1..n -> RewritePieces] : n \in 0..MaxQueryPieces}}

RewriteCall(query, conversationHistory) ==
    [pc |-> "called", query |-> query, history |-> conversationHistory,
     requests |-> 0, log |-> <<>>, body |-> NoBody,
     result |-> UnchangedQuery(query), raised |-> FALSE]

InitRewriter ==
    /\ rewriter \in {RewriteCall(q, h) : q \in RewriteQueries, h \in Histories}
    /\ router = NoCall
    /\ retrieval = NoCall
    /\ crag = NoCall
    /\ answerGrade = NoCall
    /\ backoff = NoCall
    /\ pipeline = NoCall
    /\ embedder = NoCall
    /\ MemoryIdle
    /\ SsrfIdle
    /\ ChunkIdle
    /\ IngestIdle

\* rewriteQueryWithContext up to its first await: the two early returns
rewriteQueryWithContext ==
    /\ rewriter.pc = "called"
    /\ rewriter' =
          IF Len(rewriter.history) = 0 \/ ~needsRewrite(rewriter.query)
          THEN [rewriter EXCEPT !.pc = "returned",
                                !.result = UnchangedQuery(rewriter.query)]
          ELSE [rewriter EXCEPT !.pc = "request"]
    /\ UNCHANGED <<ingestVars, ssrfVars, chunkVars, router, retrieval, crag,
                   answerGrade, backoff, pipeline, embedder, memoryVars>>

\* the single fetchWithTimeout call: it raises, times out, or is answered; a
\* failure and a non-success answer both return defaultResult
RewriteRequest ==
    /\ rewriter.pc = "request"
    /\ \E outcome \in {"error", "timeout", "ok", "notok"} :
          LET sent == [rewriter EXCEPT !.requests = @ + 1,
                                       !.log = Append(@, outcome)]
          IN rewriter' =
                IF outcome = "ok" THEN [sent EXCEPT !.pc = "body"]
                ELSE [sent EXCEPT !.pc = "returned",
                                  !.result = UnchangedQuery(rewriter.query)]
    /\ UNCHANGED <<ingestVars, ssrfVars, chunkVars, router, retrieval, crag,
                   answerGrade, backoff, pipeline, embedder, memoryVars>>

\* await response.json() and the rest of the try block
RewriteBody ==
    /\ rewriter.pc = "body"
    /\ \E body \in RewriteBodies(rewriter.query) :
          LET parsed == safeParseJSON(body.content)
          IN rewriter' =
                [rewriter EXCEPT
                    !.pc = "returned",
                    !.body = body,
                    !.result =
                        IF body.kind \in {"notjson", "null"}
                        THEN UnchangedQuery(rewriter.query)
                        ELSE IF parsed.ok
                        THEN ParsedRewrite(rewriter.query, parsed.value)
                        ELSE UnchangedQuery(rewriter.query)]
    /\ UNCHANGED <<ingestVars, ssrfVars, chunkVars, router, retrieval, crag,
                   answerGrade, backoff, pipeline, embedder, memoryVars>>

NextRewriter == rewriteQueryWithContext \/ RewriteRequest \/ RewriteBody

SpecRewriter == InitRewriter /\ [][NextRewriter]_vars

\* C22: every RewrittenQuery that rewriteQueryWithContext returns with
\* needsContext false has its rewritten text equal to the original query.
C22_RewrittenEqualsOriginal ==
    (rewriter.pc = "returned" /\ ~rewriter.result.needsContext)
        => rewriter.result.rewritten = rewriter.result.original

(***************************************************************************)
(* runAgenticPipeline (shared/utils): an async generator; one action per   *)
(* stretch of code between two suspensions (a yield or an awaited call)    *)
(***************************************************************************)

\* the default of getAdaptiveRetrievalParams' third parameter
DefaultBaseChunkCount == 10

Event(type, payload) == [type |-> type, payload |-> payload]

StatusPayload(text) == [status |-> text]

PipelineQueries == {<<"h", "i">>, <<"x">>, <<"I", "t">>, <<"I", "t", " ", "x">>}

PipelineCall(query, conversationHistory) ==
    [pc |-> "start", query |-> query, history |-> conversationHistory,
     events |-> <<>>, routerResult |-> defaultResult,
     rewrittenQuery |-> UnchangedQuery(query),
     retrievalParams |-> RetrievalParams(0, 0, 0, 0), raised |-> FALSE]

InitPipeline ==
    /\ pipeline \in {PipelineCall(q, h) : q \in PipelineQueries, h \in Histories}
    /\ router = NoCall
    /\ rewriter = NoCall
    /\ retrieval = NoCall
    /\ crag = NoCall
    /\ answerGrade = NoCall
    /\ backoff = NoCall
    /\ embedder = NoCall
    /\ MemoryIdle
    /\ SsrfIdle
    /\ ChunkIdle
    /\ IngestIdle

Yield(p, event) == [p EXCEPT !.events = Append(@, event)]

\* the end of the generator: step 3 and the return value
PipelineFinish(p) ==
    [p EXCEPT !.pc = "returned",
              !.retrievalParams =
                  getAdaptiveRetrievalParams(p.routerResult.intent,
                                             Len(p.query),
                                             DefaultBaseChunkCount)]

\* first next(): yield the routing status
PipelineStart ==
    /\ pipeline.pc = "start"
    /\ pipeline' = [Yield(pipeline, Event("routing",
                        StatusPayload("Analyzing query intent...")))
                    EXCEPT !.pc = "routingStatus"]
    /\ UNCHANGED <<ingestVars, ssrfVars, chunkVars, router, retrieval, crag,
                   answerGrade, backoff, rewriter, embedder, memoryVars>>

\* resumed: routeQuery is called and awaited
PipelineCallRouter ==
    /\ pipeline.pc = "routingStatus"
    /\ router' = RouterCall(pipeline.query, pipeline.history)
    /\ pipeline' = [pipeline EXCEPT !.pc = "routing"]
    /\ UNCHANGED <<ingestVars, ssrfVars, chunkVars, retrieval, crag,
                   answerGrade, backoff, rewriter, embedder, memoryVars>>

\* routeQuery returned: yield its result
PipelineRouted ==
    /\ pipeline.pc = "routing"
    /\ router.pc = "returned"
    /\ pipeline' = [Yield(pipeline, Event("routing", router.result))
                    EXCEPT !.pc = "routed", !.routerResult = router.result]
    /\ UNCHANGED <<ingestVars, ssrfVars, chunkVars, router, retrieval, crag,
                   answerGrade, backoff, rewriter, embedder, memoryVars>>

\* PipelineAfterRouting that looks at the history only
PipelineAfterRouting_HistoryOnly ==
    /\ pipeline.pc = "routed"
    /\ pipeline' =
          IF Len(pipeline.history) > 0
          THEN [Yield(pipeline, Event("rewriting",
                    StatusPayload("Rewriting query with context...")))
                EXCEPT !.pc = "rewritingStatus"]
          ELSE PipelineFinish(pipeline)
    /\ UNCHANGED <<ingestVars, ssrfVars, chunkVars, router, retrieval, crag,
                   answerGrade, backoff, rewriter, embedder, memoryVars>>

\* resumed: step 2's condition; either the rewriting status is yielded or
\* the generator runs to its end
PipelineAfterRouting ==
    /\ pipeline.pc = "routed"
    /\ pipeline' =
          IF ~pipeline.routerResult.skipRetrieval /\ Len(pipeline.history) > 0
          THEN [Yield(pipeline, Event("rewriting",
                    StatusPayload("Rewriting query with context...")))
                EXCEPT !.pc = "rewritingStatus"]
          ELSE PipelineFinish(pipeline)
    /\ UNCHANGED <<ingestVars, ssrfVars, chunkVars, router, retrieval, crag,
                   answerGrade, backoff, rewriter, embedder, memoryVars>>

\* resumed: rewriteQueryWithContext is called and awaited
PipelineCallRewriter ==
    /\ pipeline.pc = "rewritingStatus"
    /\ rewriter' = RewriteCall(pipeline.query, pipeline.history)
    /\ pipeline' = [pipeline EXCEPT !.pc = "rewriting"]
    /\ UNCHANGED <<ingestVars, ssrfVars, chunkVars, router, retrieval, crag,
                   answerGrade, backoff, embedder, memoryVars>>

\* rewriteQueryWithContext returned: yield its result
PipelineRewritten ==
    /\ pipeline.pc = "rewriting"
    /\ rewriter.pc = "returned"
    /\ pipeline' = [Yield(pipeline, Event("rewriting", rewriter.result))
                    EXCEPT !.pc = "rewritten",
                           !.rewrittenQuery = rewriter.result]
    /\ UNCHANGED <<ingestVars, ssrfVars, chunkVars, router, retrieval, crag,
                   answerGrade, backoff, rewriter, embedder, memoryVars>>

\* resumed: the generator runs to its end
PipelineReturn ==
    /\ pipeline.pc = "rewritten"
    /\ pipeline' = PipelineFinish(pipeline)
    /\ UNCHANGED <<ingestVars, ssrfVars, chunkVars, router, retrieval, crag,
                   answerGrade, backoff, rewriter, embedder, memoryVars>>

NextPipeline ==
    \/ PipelineStart
    \/ PipelineCallRouter
    \/ routeQuery
    \/ RouterRequest
    \/ RouterBody
    \/ PipelineRouted
    \/ PipelineAfterRouting
    \/ PipelineCallRewriter
    \/ rewriteQueryWithContext
    \/ RewriteRequest
    \/ RewriteBody
    \/ PipelineRewritten
    \/ PipelineReturn

SpecPipeline == InitPipeline /\ [][NextPipeline]_vars

\* the request of the call failed: the network, the status, the body or the
\* message content
RewriteRequestFailed ==
    /\ rewriter.pc = "returned"
    /\ rewriter.log # <<>>
    /\ \/ rewriter.log[Len(rewriter.log)] \in {"error", "timeout", "notok"}
       \/ rewriter.body.kind \in {"notjson", "null", "nochoices"}
       \/ /\ rewriter.body.kind = "completion"
          /\ rewriter.body.content.kind \in {"empty", "prose", "badjson", "scalar"}

AnswerRequestFailed ==
    /\ answerGrade.pc = "returned"
    /\ answerGrade.log # <<>>
    /\ \/ answerGrade.log[Len(answerGrade.log)] \in {"error", "timeout", "notok"}
       \/ answerGrade.body.kind \in {"notjson", "null", "nochoices"}
       \/ /\ answerGrade.body.kind = "completion"
          /\ answerGrade.body.content.kind \in {"empty", "prose", "badjson", "scalar"}

WroteReady(j) == \E k \in 1..Len(j.statusWrites) : j.statusWrites[k] = "ready"

RowsWithHash(rows, text) ==
    SelectSeq(rows, LAMBDA r : r.content_hash = hashContent(text))

\* the texts of a sequence, as a set
TextSet(texts) == {texts[k] : k \in 1..Len(texts)}

OwnVector(row) == row.embedding = FormatEmbedding(VectorOf(row.text))

C28_ReadyRowsAreThisRun ==
    \A w \in SeqWorkers :
        LET j == job[w]
        IN (Started(j) /\ WroteReady(j)) =>
              /\ RowsOf(chunks, j.sourceId) = j.chunkRecords
              /\ \A k \in 1..Len(j.chunkRecords) : OwnVector(j.chunkRecords[k])

(***************************************************************************)
(* Concurrent ingest jobs: the handler runs with concurrency > 1, so two   *)
(* worker slots hold a file job each at the same time. SpecSameSource      *)
(* gives both jobs the Source s1, SpecTwoSources gives slot w1 the Source  *)
(* s1 and slot w2 the Source s2.                                           *)
(***************************************************************************)

\* the queue hands a file job for Source s to the free slot w
PickupFile(w, s) ==
    /\ job[w].pc = "idle"
    /\ \E m \in {"application/pdf", "text/plain"} :
          SetJob(w, [IdleJob EXCEPT
              !.pc = "start", !.type = "ingest_file", !.sourceId = s,
              !.mimeType = m,
              !.rowsBefore = RowsOf(chunks, s),
              !.prev = history.last[s],
              !.auditBefore = Len(audit_events)])
    /\ history' = [history EXCEPT !.started = @ + 1]
    /\ UNCHANGED <<status, error_message, chunks, audit_events, ssrfVars, chunkVars, utilVars>>

\* the steps of a file job in slot w
FileJobStep(w) ==
    \/ FileStart(w)
    \/ FileDownload(w)
    \/ FileExtract(w)
    \/ WriteChunking(w)
    \/ WriteEmbedding(w)
    \/ BatchLookup(w)
    \/ BatchEmbed(w)
    \/ DeleteChunks(w)
    \/ InsertChunks(w)
    \/ WriteReady(w)
    \/ AuditCompleted(w)
    \/ CatchUpdate(w)
    \/ CatchAudit(w)

NextSameSource ==
    \E w \in Workers :
        \/ PickupFile(w, "s1")
        \/ FileJobStep(w)

SpecSameSource == Init /\ [][NextSameSource]_vars

\* the Source each slot serves in SpecTwoSources
SourceOfSlot(w) == IF w = "w1" THEN "s1" ELSE "s2"

NextTwoSources ==
    \E w \in Workers :
        \/ PickupFile(w, SourceOfSlot(w))
        \/ FileJobStep(w)

SpecTwoSources == Init /\ [][NextTwoSources]_vars

\* no idx occurs twice among the rows
DistinctIdx(rows) ==
    \A a, b \in 1..Len(rows) : rows[a].idx = rows[b].idx => a = b

\* C25: once two concurrent jobs for the same Source have both completed,
\* the Source's chunk rows are the complete set of one of the two runs: the
\* rows one of them inserted, with no idx twice.
C25_OneRunsChunkSet ==
    (\A w \in Workers : job[w].pc = "completed" /\ job[w].sourceId = "s1") =>
        /\ \E w \in Workers : RowsOf(chunks, "s1") = job[w].inserted
        /\ DistinctIdx(RowsOf(chunks, "s1"))

\* what the table holds of Source s
StoredOf(s) == <<RowsOf(chunks, s), status[s], error_message[s]>>

\* a step changes the rows, the status or the error message of a Source only
\* if it is a step of a job of that Source
OwnSourceOnly ==
    \A s \in Sources :
        StoredOf(s)' # StoredOf(s) =>
            \E w \in Workers : job'[w] # job[w] /\ job'[w].sourceId = s

\* the records a run builds from its content when every vector is right
RecordsOfRun(j) ==
    LET list == ChunksOfContent(j.content, j.paged)
    IN [k \in 1..Len(list) |->
           [source_id |-> j.sourceId, idx |-> list[k].index,
            page |-> list[k].page, text |-> list[k].text,
            content_hash |-> hashContent(list[k].text),
            embedding |-> FormatEmbedding(VectorOf(list[k].text))]]

\* the outcome of a job is the outcome of the same job running alone: what
\* it looks up are the rows its own Source had at pickup, a completed job
\* leaves status ready and its own records (after the old rows if its delete
\* failed), a failed job leaves status failed, its error, and the old rows
\* or none
OutcomeAsAlone ==
    \A w \in Workers :
        LET j == job[w]
            rows == RowsOf(chunks, j.sourceId)
        IN /\ j.pc = "embed" =>
                 j.textsToEmbed = TextsToEmbed(BatchOf(j),
                     ExistingMapOf(j.rowsBefore,
                         {hashContent(BatchOf(j)[k].text) : k \in 1..Len(BatchOf(j))}))
           /\ j.pc = "completed" =>
                 /\ status[j.sourceId] = "ready"
                 /\ j.inserted = RecordsOfRun(j)
                 /\ rows = j.inserted \/ rows = j.rowsBefore \o j.inserted
           /\ j.pc = "failed" =>
                 /\ status[j.sourceId] = "failed"
                 /\ error_message[j.sourceId] = j.thrown
                 /\ rows = j.rowsBefore \/ rows = <<>>

\* C30: with concurrent jobs for different Sources, every step of a job
\* touches only the rows, status and error message of its own Source, and
\* each job ends as it would have ended running alone.
C30_JobsOfDifferentSourcesIndependent ==
    [][OwnSourceOnly]_vars /\ []OutcomeAsAlone

\* the job of s1 completed with three rows while the job of s2, picked up
\* before that, sits between its delete and its insert
C30_Witness ==
    /\ job["w1"].pc = "completed"
    /\ Len(job["w1"].inserted) = 3
    /\ RowsOf(chunks, "s1") = job["w1"].inserted
    /\ job["w2"].pc = "insert"
    /\ job["w2"].auditBefore = 0
    /\ job["w2"].rowsBefore # <<>>
    /\ RowsOf(chunks, "s2") = <<>>

(***************************************************************************)
(* OpenRouterEmbeddingProvider.embed (shared/llm) and the record loop of   *)
(* processChunkMemory that consumes its result                             *)
(***************************************************************************)

MaxTexts == 3

EmbedTexts ==
    UNION {[1..n -> {"p", "q", "r"}] : n \in 1..MaxTexts}

EmbedCall(texts) ==
    [pc |-> "called", texts |-> texts, status |-> "none", result |-> <<>>,
     records |-> <<>>, raised |-> FALSE]

InitEmbed ==
    /\ embedder \in {EmbedCall(texts) : texts \in EmbedTexts}
    /\ router = NoCall
    /\ rewriter = NoCall
    /\ pipeline = NoCall
    /\ retrieval = NoCall
    /\ crag = NoCall
    /\ answerGrade = NoCall
    /\ backoff = NoCall
    /\ MemoryIdle
    /\ SsrfIdle
    /\ ChunkIdle
    /\ IngestIdle

\* embed(texts): the request fails, is answered with a non-success status
\* (both raise), or is answered with a body whose entries are sorted by
\* index and mapped to their vectors
EmbedRequest ==
    /\ embedder.pc = "called"
    /\ \/ \E outcome \in {"error", "notok"} :
             embedder' = [embedder EXCEPT !.pc = "raised", !.status = outcome,
                                          !.raised = TRUE]
       \/ \E data \in EmbeddingResponses(embedder.texts) :
             embedder' = [embedder EXCEPT !.pc = "returned", !.status = "ok",
                                          !.result = embed(data)]
    /\ UNCHANGED <<ingestVars, ssrfVars, chunkVars, router, retrieval, crag,
                   answerGrade, backoff, rewriter, pipeline, memoryVars>>

\* JSON.stringify(embeddings[j]): nothing (the property is left out of the
\* row) when embeddings[j] is undefined
StringifyVector(embeddings, j) ==
    IF j <= Len(embeddings) THEN <<FormatEmbedding(embeddings[j])>> ELSE Absent

\* processChunkMemory's loop over the batch after embed returned
MemoryRecords ==
    /\ embedder.pc = "returned"
    /\ embedder' =
          [embedder EXCEPT
              !.pc = "built",
              !.records = [j \in 1..Len(embedder.texts) |->
                              [idx |-> j - 1, text |-> embedder.texts[j],
                               content_hash |-> hashContent(embedder.texts[j]),
                               embedding |-> StringifyVector(embedder.result, j)]]]
    /\ UNCHANGED <<ingestVars, ssrfVars, chunkVars, router, retrieval, crag,
                   answerGrade, backoff, rewriter, pipeline, memoryVars>>

NextEmbed == EmbedRequest \/ MemoryRecords

SpecEmbed == InitEmbed /\ [][NextEmbed]_vars

\* C29: a call of embed that returns yields exactly one vector per input
\* text, in input order, so that processChunkMemory builds no record
\* without a vector; a call answered with a non-success status raises.
C29_EmbedOneVectorPerText ==
    /\ embedder.pc \in {"returned", "built"} =>
          /\ Len(embedder.result) = Len(embedder.texts)
          /\ \A k \in 1..Len(embedder.texts) :
                embedder.result[k] = VectorOf(embedder.texts[k])
    /\ embedder.pc = "built" =>
          \A j \in 1..Len(embedder.records) : embedder.records[j].embedding # Absent
    /\ (embedder.pc # "idle" /\ embedder.pc # "called"
            /\ embedder.status \in {"error", "notok"}) => embedder.raised

(***************************************************************************)
(* Further properties of the chunker                                       *)
(***************************************************************************)

Distance(a, b) == IF a >= b THEN a - b ELSE b - a

\* the offsets just after the matches of /[.!?]\s+/ that lie in the window
\* of searchWindow characters around targetChars
SentenceEndsNear(text, targetChars) ==
    LET searchStart == Max(0, targetChars - searchWindow)
        searchEnd   == Min(Len(text), targetChars + searchWindow)
        searchText  == Slice(text, searchStart, searchEnd)
    IN {searchStart + i + SpaceRun(searchText, i + 1) :
           i \in {n \in 1..Len(searchText) :
                    /\ searchText[n] \in {".", "!", "?"}
                    /\ SpaceRun(searchText, n + 1) > 0}}

\* the first buffer of a text without paragraph break
FirstBuffer == Trim(ctArgs.text)

SingleParagraph == \A i \in 1..Len(ctArgs.text) : NewlineRun(ctArgs.text, i) < 2

\* C31: when a buffer longer than 1.5 x T x 4 characters is force-split and
\* the window around offset T x 4 contains a sentence end, the split offset
\* is the offset just after a sentence end closest to T x 4, and the first
\* chunk is the buffer up to that offset.
C31_SplitAtClosestSentenceEnd ==
    LET targetChars == ctArgs.targetTokens * CHARS_PER_TOKEN_ESTIMATE
        ends == SentenceEndsNear(FirstBuffer, targetChars)
        splitPoint == findSplitPoint(FirstBuffer, targetChars)
    IN (/\ ChunkCalled
        /\ SingleParagraph
        /\ ExceedsSplitLimit(FirstBuffer, targetChars)
        /\ ends # {}) =>
           /\ splitPoint \in ends
           /\ \A e \in ends :
                 Distance(splitPoint, targetChars) <= Distance(e, targetChars)
           /\ ctChunks.chunks[1].text = Trim(Slice(FirstBuffer, 0, splitPoint))

\* every iteration of the while loop that starts from st shortens the
\* buffer by at least targetChars - overlapChars and adds one chunk
RECURSIVE SplitsShrink(_, _, _)
SplitsShrink(st, targetChars, overlapChars) ==
    \/ ~ExceedsSplitLimit(st.cur, targetChars)
    \/ LET next == SplitOnce(st, targetChars, overlapChars)
       IN /\ Len(next.cur) + (targetChars - overlapChars) <= Len(st.cur)
          /\ Len(next.out) = Len(st.out) + 1
          /\ SplitsShrink(next, targetChars, overlapChars)

\* SplitsShrink for the while loop of every paragraph of the for loop
RECURSIVE LoopShrinks(_, _, _, _)
LoopShrinks(st, paragraphs, targetChars, overlapChars) ==
    \/ paragraphs = <<>>
    \/ /\ Trim(Head(paragraphs)) # <<>> =>
             SplitsShrink(Joined(st, Trim(Head(paragraphs)), targetChars, overlapChars),
                          targetChars, overlapChars)
       /\ LoopShrinks(AddParagraph(st, Head(paragraphs), targetChars, overlapChars),
                      Tail(paragraphs), targetChars, overlapChars)

\* the paragraphs of the input that are not blank
NonBlankParagraphs ==
    SelectSeq(SplitParagraphs(ctArgs.text), LAMBDA p : Trim(p) # <<>>)

\* C38: with an overlap smaller than the target a call of chunkText
\* returns: every force-split iteration shortens the buffer by at least
\* (T - V) x 4 > 0 characters, and the number of chunks is bounded by the
\* input (one per paragraph boundary, one per (T - V) x 4 characters of a
\* paragraph plus one, and the last chunk).
C38_ForceSplitShrinks ==
    LET targetChars  == ctArgs.targetTokens * CHARS_PER_TOKEN_ESTIMATE
        overlapChars == ctArgs.overlapTokens * CHARS_PER_TOKEN_ESTIMATE
    IN (ChunkCalled /\ ctArgs.overlapTokens < ctArgs.targetTokens) =>
          /\ targetChars - overlapChars > 0
          /\ LoopShrinks([cur |-> <<>>, out |-> <<>>], SplitParagraphs(ctArgs.text),
                         targetChars, overlapChars)
          /\ Len(ctChunks.chunks)
                <= 1 + 2 * Len(NonBlankParagraphs)
                     + Len(ctArgs.text) \div (targetChars - overlapChars)

\* one paragraph of 17 characters or more with T = 2 and V = 1: the while
\* loop ran at least twice
C38_Witness ==
    /\ ChunkCalled
    /\ ctArgs.targetTokens = 2
    /\ ctArgs.overlapTokens = 1
    /\ SingleParagraph
    /\ Len(FirstBuffer) >= 17
    /\ Len(ctChunks.chunks) >= 3

(***************************************************************************)
(* Further properties of URL and file acquisition                          *)
(***************************************************************************)

\* the extracted text is present and at least 100 characters long
Sufficient(page) == page.article /\ page.len >= 100

CouldNotExtract == <<"Could not extract meaningful content from URL">>

\* C32: the browser-rendering fetch is attempted only when it is enabled and
\* only after the direct fetch failed or gave insufficient text; a page is
\* insufficient in either tier exactly when its text is absent or shorter
\* than 100 characters, so a job gives up on a tier's page only when that
\* page is insufficient, and only sufficient content is processed.
C32_TwoTierFetch ==
    \A w \in SeqWorkers :
        LET j == job[w]
        IN (Started(j) /\ j.type = "ingest_url") =>
              /\ j.pc \in {"render1", "render2"} =>
                    /\ j.playwright
                    /\ j.netLog # <<>> /\ j.netLog[1] = "fetch"
                    /\ (j.pc = "render2" /\ j.netLog = <<"fetch">>)
                           => ~Sufficient(j.page)
              /\ (j.pc = "catch" /\ j.thrown = CouldNotExtract)
                    => ~Sufficient(j.page)
              /\ j.content # NoPage => Sufficient(j.content)

\* the job wrote status chunking
WroteChunking(j) == \E k \in 1..Len(j.statusWrites) : j.statusWrites[k] = "chunking"

\* C33: in URL and file jobs status chunking is written only after content
\* was acquired and passed content validation; a job whose content fails
\* validation makes no embedding call and ends failed with the validator's
\* reason as the stored error message.
C33_ValidationBeforeChunking ==
    \A w \in SeqWorkers :
        LET j == job[w]
        IN Started(j) =>
              /\ WroteChunking(j) =>
                    /\ j.content # NoPage
                    /\ validateContent(j.content) = NoError
              /\ (j.content # NoPage /\ validateContent(j.content) # NoError) =>
                    /\ j.embedCalls = 0
                    /\ EndedJob(j) =>
                          /\ j.pc = "failed"
                          /\ error_message[j.sourceId] = validateContent(j.content)

\* the batch loop of the job has ended and the delete has been issued
PastDelete(j) == j.recordsBuilt /\ j.pc # "delete"

\* a step that changes table chunks is the delete or the insert of a job
\* whose batch loop has run to its end
ChunksChangeAfterLoop ==
    chunks' # chunks =>
        \E w \in Workers :
            /\ job[w].pc \in {"delete", "insert"}
            /\ job[w].recordsBuilt
            /\ job[w].i >= Len(job[w].chunkList)
            /\ Len(job[w].chunkRecords) = Len(job[w].chunkList)

\* C39: a URL or file job neither deletes nor inserts chunk rows before
\* every embedding batch has returned; until its delete, and for good when
\* it fails in acquisition, extraction, validation, chunking or embedding,
\* the Source holds the rows it held when the job was picked up.
C39_RowsKeptUntilEmbedded ==
    /\ [][ChunksChangeAfterLoop]_vars
    /\ [](\A w \in Workers :
             (Started(job[w]) /\ ~PastDelete(job[w])) =>
                 RowsOf(chunks, job[w].sourceId) = job[w].rowsBefore)

\* a re-ingestion whose embedding call failed: the rows of the earlier run
\* are still there
C39_Witness ==
    \E w \in Workers :
        /\ job[w].pc = "failed"
        /\ job[w].embedCalls > 0
        /\ job[w].thrown = <<"OpenRouter embedding failed: ", "500">>
        /\ job[w].rowsBefore # <<>>
        /\ RowsOf(chunks, job[w].sourceId) = job[w].rowsBefore

(***************************************************************************)
(* Further properties of the retrieval-control functions                   *)
(***************************************************************************)

RoutingStatus == Event("routing", StatusPayload("Analyzing query intent..."))

RewritingStatus == Event("rewriting", StatusPayload("Rewriting query with context..."))

RewriterWanted == ~pipeline.routerResult.skipRetrieval /\ Len(pipeline.history) > 0

\* C34: in every run of runAgenticPipeline the routing result is yielded
\* before the rewriter is called, the rewriter is called exactly when the
\* router's result has skipRetrieval false and the history is not empty,
\* all events are yielded before the value is returned, without a rewriter
\* call there is no rewriting event and the returned rewritten query is the
\* original query, and the returned parameters are those of the router's
\* intent.
C34_PipelineOrder ==
    pipeline.pc # "idle" =>
        /\ rewriter.pc # "idle" =>
              /\ Len(pipeline.events) >= 3
              /\ pipeline.events[2] = Event("routing", router.result)
              /\ pipeline.events[3] = RewritingStatus
              /\ RewriterWanted
        /\ pipeline.pc = "returned" =>
              /\ rewriter.pc # "idle" <=> RewriterWanted
              /\ pipeline.routerResult = router.result
              /\ pipeline.retrievalParams
                    = getAdaptiveRetrievalParams(router.result.intent,
                                                 Len(pipeline.query),
                                                 DefaultBaseChunkCount)
              /\ IF rewriter.pc # "idle"
                 THEN /\ rewriter.pc = "returned"
                      /\ pipeline.events
                            = <<RoutingStatus, Event("routing", router.result),
                                RewritingStatus,
                                Event("rewriting", rewriter.result)>>
                      /\ pipeline.rewrittenQuery = rewriter.result
                 ELSE /\ pipeline.events
                            = <<RoutingStatus, Event("routing", router.result)>>
                      /\ pipeline.rewrittenQuery.rewritten = pipeline.query
                      /\ pipeline.rewrittenQuery.original = pipeline.query

\* a run with history whose router answered no_retrieval: the rewriter was
\* not called and two events were yielded
C34_Witness ==
    /\ pipeline.pc = "returned"
    /\ Len(pipeline.history) > 0
    /\ router.requests = 1
    /\ pipeline.routerResult.skipRetrieval
    /\ rewriter.pc = "idle"
    /\ Len(pipeline.events) = 2
    /\ pipeline.retrievalParams.chunkCount = 0

\* C35: every result routeQuery returns has an intent among the six labels,
\* whatever the service answered, and skipRetrieval is true exactly when the
\* intent is no_retrieval.
C35_RouterIntentLabels ==
    RouterReturned =>
        /\ router.result.intent \in QueryIntents
        /\ router.result.skipRetrieval <=> router.result.intent = "no_retrieval"

\* C36: for every intent, every integer base chunk count >= 0 and every
\* query length the chunkCount returned is a non-negative integer (the
\* model holds chunkCount in tenths).
C36_ChunkCountInteger ==
    (retrieval.pc = "returned" /\ retrieval.baseChunkCount >= 0) =>
        /\ retrieval.result.chunkCount >= 0
        /\ retrieval.result.chunkCount % 10 = 0

\* the input chunks that can be graded: the first GRADE_LIMIT of them
FirstTen == Slice(crag.chunks, 0, GRADE_LIMIT)

\* the service's list of grades holds an entry for index i
HasGrade(i) ==
    \E k \in 1..Len(crag.body.content.value) : crag.body.content.value[k].index = i

\* C37: a request carries the first ten input chunks at most; after a
\* successful grading gradedChunks has exactly min(n, 10) entries, one per
\* chunk sent, in input order; an index the service gave no grade for is
\* partially_relevant with score 0.5; relevantChunks is a subsequence of
\* the first ten input chunks in their order.
C37_GradesFirstTen ==
    /\ (crag.pc # "idle" /\ crag.requests > 0) => crag.sent = FirstTen
    /\ GradingSucceeded =>
          LET g == crag.result.gradedChunks
              r == crag.result.relevantChunks
          IN /\ Len(g) = Min(Len(crag.chunks), 10)
             /\ \A i \in 1..Len(g) :
                   /\ g[i].chunk = crag.chunks[i]
                   /\ ~HasGrade(i - 1) => /\ g[i].relevance = "partially_relevant"
                                          /\ g[i].score = <<50>>
             /\ \A k \in 1..Len(r) : \E i \in 1..Len(FirstTen) : r[k] = FirstTen[i]
             /\ \A k \in 1..(Len(r) - 1) : r[k] < r[k + 1]

\* eleven chunks, the second one left without a grade: ten graded chunks,
\* the second partially_relevant with 0.5 and relevant, the eleventh absent
C37_Witness ==
    /\ GradingSucceeded
    /\ Len(crag.chunks) = 11
    /\ ~HasGrade(1)
    /\ HasGrade(0)
    /\ Len(crag.result.gradedChunks) = 10
    /\ crag.result.gradedChunks[2] = GradedChunk(1, "partially_relevant", <<50>>)
    /\ crag.result.gradedChunks[10].chunk = 9
    /\ \E k \in 1..Len(crag.result.relevantChunks) : crag.result.relevantChunks[k] = 1

(***************************************************************************)
(* Specification SpecMemory: the memory worker takes chunk-memory jobs     *)
(* for one memory one after another (processChunkMemory)                   *)
(***************************************************************************)

MaxMemoryJobs == 2

\* memories.content as far as the processor looks at it: its length and
\* the texts chunkText(cleanText(content), ...) makes of it.  A null
\* content, nine characters, ten characters, blanks only, three chunks.
MemoryContents ==
    {[len |-> 0, texts |-> <<>>],
     [len |-> 9, texts |-> <<"p">>],
     [len |-> 10, texts |-> <<"q">>],
     [len |-> 12, texts |-> <<>>],
     [len |-> 30, texts |-> <<"p", "q", "r">>]}

NoContent == [len |-> 0, texts |-> <<>>]

IdleMemoryJob ==
    [pc |-> "idle", memoryId |-> "none", content |-> NoContent,
     chunkList |-> <<>>, i |-> 0, chunkRecords |-> <<>>,
     deleteIssued |-> FALSE, deleteError |-> FALSE, embedCalls |-> 0,
     inserts |-> 0, raised |-> NoError, rowsBefore |-> <<>>, started |-> 0]

\* rows of table memory_chunks that belong to a memory, in table order
RowsOfMemory(rows, m) == SelectSeq(rows, LAMBDA r : r.memory_id = m)

RowsNotOfMemory(rows, m) == SelectSeq(rows, LAMBDA r : r.memory_id # m)

\* memory m1 has no chunk rows yet; memory m2 holds one
InitMemory ==
    /\ memory_chunks = <<[memory_id |-> "m2", idx |-> 0, text |-> "q",
                          content_hash |-> hashContent("q"),
                          embedding |-> <<FormatEmbedding(VectorOf("q"))>>]>>
    /\ memoryJob = IdleMemoryJob
    /\ router = NoCall
    /\ retrieval = NoCall
    /\ crag = NoCall
    /\ answerGrade = NoCall
    /\ backoff = NoCall
    /\ rewriter = NoCall
    /\ pipeline = NoCall
    /\ embedder = NoCall
    /\ SsrfIdle
    /\ ChunkIdle
    /\ IngestIdle

MemoryUnchanged ==
    UNCHANGED <<ingestVars, ssrfVars, chunkVars, router, retrieval, crag,
                answerGrade, backoff, rewriter, pipeline, embedder>>

\* an error leaves processChunkMemory; the worker's catch logs and rethrows
MemoryThrow(j, msg) == [j EXCEPT !.pc = "failed", !.raised = msg]

\* the queue hands a job to the handler (new Worker('memory', ...))
MemoryPickup ==
    /\ memoryJob.pc \in {"idle", "completed", "failed"}
    /\ memoryJob.started < MaxMemoryJobs
    /\ memoryJob' = [IdleMemoryJob EXCEPT
                        !.pc = "settings", !.memoryId = "m1",
                        !.rowsBefore = RowsOfMemory(memory_chunks, "m1"),
                        !.started = memoryJob.started + 1]
    /\ UNCHANGED memory_chunks
    /\ MemoryUnchanged

\* the select on user_settings and the choice of the API key
MemorySettings ==
    /\ memoryJob.pc = "settings"
    /\ \E key \in {"user", "shared", "none"} :
          memoryJob' = IF key = "none"
                       THEN MemoryThrow(memoryJob, <<"No API key configured for user">>)
                       ELSE [memoryJob EXCEPT !.pc = "select"]
    /\ UNCHANGED memory_chunks
    /\ MemoryUnchanged

\* the select on memories, the check of the row and of the content's length
MemorySelect ==
    /\ memoryJob.pc = "select"
    /\ \/ memoryJob' = MemoryThrow(memoryJob, <<"Memory not found: ", memoryJob.memoryId>>)
       \/ \E content \in MemoryContents :
             memoryJob' = IF content.len < 10
                          THEN [memoryJob EXCEPT !.pc = "completed", !.content = content]
                          ELSE [memoryJob EXCEPT !.pc = "delete", !.content = content]
    /\ UNCHANGED memory_chunks
    /\ MemoryUnchanged

\* control at the head of the batch loop and past it: the insert is
\* skipped when no record was built
MemoryLoopHead(j) ==
    IF j.i < Len(j.chunkList) THEN [j EXCEPT !.pc = "embed"]
    ELSE IF Len(j.chunkRecords) > 0 THEN [j EXCEPT !.pc = "insert"]
    ELSE [j EXCEPT !.pc = "completed"]

\* memory_chunks.delete().eq('memory_id', memoryId): a deleteError is only
\* logged; then cleanText and chunkText, and the loop is entered
MemoryDelete ==
    /\ memoryJob.pc = "delete"
    /\ \E deleteError \in BOOLEAN :
          /\ memory_chunks' = IF deleteError THEN memory_chunks
                              ELSE RowsNotOfMemory(memory_chunks, memoryJob.memoryId)
          /\ memoryJob' = MemoryLoopHead([memoryJob EXCEPT
                               !.deleteIssued = TRUE,
                               !.deleteError = deleteError,
                               !.chunkList = [k \in 1..Len(memoryJob.content.texts) |->
                                                 [text |-> memoryJob.content.texts[k],
                                                  index |-> k - 1]],
                               !.i = 0])
    /\ MemoryUnchanged

\* chunks.slice(i, i + EMBEDDING_BATCH_SIZE)
MemoryBatch(j) ==
    SubSeq(j.chunkList, j.i + 1, Min(j.i + EMBEDDING_BATCH_SIZE, Len(j.chunkList)))

\* the records of one batch: idx is i + j
MemoryBatchRecords(j, embeddings) ==
    LET batch == MemoryBatch(j)
    IN [k \in 1..Len(batch) |->
           [memory_id |-> j.memoryId, idx |-> j.i + (k - 1), text |-> batch[k].text,
            content_hash |-> hashContent(batch[k].text),
            embedding |-> StringifyVector(embeddings, k)]]

\* embeddings = await embeddingProvider.embed(texts) and the record loop
MemoryEmbed ==
    LET j == [memoryJob EXCEPT !.embedCalls = @ + 1]
        batch == MemoryBatch(memoryJob)
        texts == [k \in 1..Len(batch) |-> batch[k].text]
    IN /\ memoryJob.pc = "embed"
       /\ \/ memoryJob' = MemoryThrow(j, <<"OpenRouter embedding failed: ", "500">>)
          \/ \E data \in EmbeddingResponses(texts) :
                memoryJob' = MemoryLoopHead([j EXCEPT
                                 !.chunkRecords = @ \o MemoryBatchRecords(j, embed(data)),
                                 !.i = @ + EMBEDDING_BATCH_SIZE])
       /\ UNCHANGED memory_chunks
       /\ MemoryUnchanged

\* memory_chunks.insert(chunkRecords), and throw insertError
MemoryInsert ==
    LET j == [memoryJob EXCEPT !.inserts = @ + 1]
    IN /\ memoryJob.pc = "insert"
       /\ \/ /\ memory_chunks' = memory_chunks \o memoryJob.chunkRecords
             /\ memoryJob' = [j EXCEPT !.pc = "completed"]
          \/ /\ memory_chunks' = memory_chunks
             /\ memoryJob' = MemoryThrow(j, <<"insertError">>)
       /\ MemoryUnchanged

NextMemory ==
    \/ MemoryPickup
    \/ MemorySettings
    \/ MemorySelect
    \/ MemoryDelete
    \/ MemoryEmbed
    \/ MemoryInsert

SpecMemory == InitMemory /\ [][NextMemory]_vars

\* the job failed in an embedding call or in the insert
MemoryFailedLate ==
    /\ memoryJob.pc = "failed"
    /\ memoryJob.raised \in {<<"OpenRouter embedding failed: ", "500">>, <<"insertError">>}

\* C40: processChunkMemory issues the delete of the memory's rows before
\* its first embedding call; a job whose embedding call or insert fails
\* raises and leaves the memory without chunk rows; a job whose content is
\* shorter than 10 characters returns without delete, embedding call or
\* insert; the rows a successful job inserted carry idx 0..n-1 in chunk
\* order.
C40_MemoryChunksReplaced ==
    LET own == RowsOfMemory(memory_chunks, "m1")
    IN /\ (memoryJob.pc # "idle" /\ memoryJob.embedCalls > 0) => memoryJob.deleteIssued
       /\ MemoryFailedLate => (own = <<>> /\ memoryJob.raised # NoError)
       /\ (memoryJob.pc = "completed" /\ memoryJob.content.len < 10) =>
             /\ ~memoryJob.deleteIssued
             /\ memoryJob.embedCalls = 0
             /\ memoryJob.inserts = 0
             /\ own = memoryJob.rowsBefore
       /\ (memoryJob.pc = "completed" /\ memoryJob.inserts > 0) =>
             /\ Len(memoryJob.chunkRecords) = Len(memoryJob.chunkList)
             /\ \A k \in 1..Len(memoryJob.chunkRecords) :
                   /\ memoryJob.chunkRecords[k].idx = k - 1
                   /\ memoryJob.chunkRecords[k].text = memoryJob.chunkList[k].text
             /\ SubSeq(own, Len(own) - Len(memoryJob.chunkRecords) + 1, Len(own))
                   = memoryJob.chunkRecords
====
